---- MODULE Spec2Model ----
(***************************************************************************)
(* Model of sopel.irc.AbstractBot (src/sopel/irc/__init__.py) and of       *)
(* sopel.tools._batch.Batch (src/sopel/tools/_batch.py).                   *)
(*                                                                         *)
(* Conventions                                                             *)
(*  - A Python str that the code indexes or slices is a tuple of one-      *)
(*    character strings: "+r1" is <<"+", "r", "1">>.  s[0] is Char0(s),    *)
(*    s[1:] is Slice1(s).                                                  *)
(*  - Python sequences are 0-based, TLA+ sequences 1-based: args[k] is     *)
(*    args[k + 1] here.  Item(args, k) does the shift.                     *)
(*  - An Optional value is a set with no element (None) or one element.    *)
(*  - A dict is a function; key lookup d[k] on a missing key is KeyError.  *)
(*  - An inbound raw line is given by its parse (event, args, tags); the   *)
(*    parser, sopel.trigger.PreTrigger, is an external collaborator.       *)
(*    Token positions are those the two source files agree on              *)
(*    (on_message reads args[1][0], Batch.__init__ reads pretrigger[1][1:] *)
(*    and pretrigger[2]): index 1 is the sigil and reference, index 2 the  *)
(*    batch type.  on_message names Batch without importing it; the model  *)
(*    binds it to sopel.tools._batch.Batch.  Line 327 of on_message,       *)
(*    "if self.batches[pretrigger.args[1][0]]" followed by "pass", is      *)
(*    read as the if statement it lacks the colon of.                      *)
(*  - Every handler is one atomic action, except say(), which a thread   *)
(*    runs in three steps: the call up to the lock (say), the lock with    *)
(*    the refill and the start of the wait (say_enter), and the loop       *)
(*    check, the send and the release (say_transmit).  An exception that   *)
(*    escapes a handler is recorded in `raised`; the state written before  *)
(*    the raise is kept, as in Python.                                     *)
(*    Where threads call cap_req() it is two steps of a thread, its        *)
(*    checks (cap_req_check) and its append and store (cap_req_store).     *)
(*  - Time is an integer number of ticks, Second ticks to the second;      *)
(*    time.time() and datetime.utcnow() read the same clock `now`.         *)
(*  - ISupport, utils.safe, tools.get_sendable_message and the identifier  *)
(*    case folding are external collaborators, modelled by what the        *)
(*    specification says of them.                                          *)
(***************************************************************************)
EXTENDS Integers, Sequences, FiniteSets, TLC

\* ------------------------------------------------------------------ bounds
MaxLines == 4       \* inbound lines handed to on_message in one run
MaxBatchLines == 5  \* the same, where a batch is opened, filled and closed
MaxCapReqs == 3     \* cap_req calls in one run
MaxCalls == 3       \* connection-API calls (on_connect, change_current_nick)
MaxSent == 2        \* effects after which the API specification stops calling
MaxTime == 4        \* ticks after which the clock stops
MaxSays == 3        \* say calls in one run
MaxErrors == 12     \* on_error invocations in one run
MaxErrorTime == 12  \* ticks after which the clock of the error handler stops

\* ----------------------------------------------------------- Python values
NoExc == "none"

Char0(s) == s[1]                      \* s[0]; the caller checks Len(s) > 0
Slice1(s) == IF Len(s) = 0 THEN s ELSE Tail(s)    \* s[1:]
Item(seq, k) == seq[k + 1]            \* seq[k], 0 <= k < len(seq)
HasItem(seq, k) == k + 1 \in 1..Len(seq)
Last(seq) == seq[Len(seq)]            \* seq[-1]

\* tags: a set of <<name, value>> pairs with at most one pair per name
HasTag(tags, name) == \E t \in tags : t[1] = name
TagGet(tags, name) == {t[2] : t \in {u \in tags : u[1] = name}}   \* dict.get
TagPop(tags, name) == {t \in tags : t[1] # name}                  \* dict.pop(name, None)

\* ------------------------------------------------- sopel.tools._batch
chathistory == <<"c", "h", "a", "t", "h", "i", "s", "t", "o", "r", "y">>
netjoin == <<"n", "e", "t", "j", "o", "i", "n">>
netsplit == <<"n", "e", "t", "s", "p", "l", "i", "t">>
BatchType == {chathistory, netjoin, netsplit}

\* Batch(pretrigger, parent): the new object, or the exception __init__ raises.
\* parent is the Optional reference of the parent batch.
Batch(pretrigger, parent) ==
    IF ~HasItem(pretrigger.args, 1) THEN [exc |-> "IndexError"]
    ELSE IF ~HasItem(pretrigger.args, 2) THEN [exc |-> "IndexError"]
    ELSE IF Item(pretrigger.args, 2) \notin BatchType THEN [exc |-> "ValueError"]
    ELSE [exc |-> NoExc,
          reference |-> Slice1(Item(pretrigger.args, 1)),
          batchtype |-> Item(pretrigger.args, 2),
          parent |-> parent,
          messages |-> <<>>]

\* ------------------------------------------------------------------- state
VARIABLES
    backend,                \* self.backend: {} (None) or {"backend"}
    nick,                   \* self._nick
    settings,               \* self.settings.core
    connection_registered,  \* self.connection_registered
    enabled_capabilities,   \* self.enabled_capabilities
    cap_reqs,               \* self._cap_reqs: capability name -> list object id
    cap_lists,              \* the list objects: id -> sequence of CapReq
    last_raw_line,          \* self.last_raw_line
    batches,                \* self.batches: reference -> Batch
    effects,                \* calls made on the backend and on dispatch, in order
    received,               \* history: the lines on_message accepted, with outcome
    call,                   \* history: the last handler invoked, its input
    raised,                 \* the exception that escaped the last handler
    hasquit,                \* self.hasquit
    wantsrestart,           \* self.wantsrestart
    error_count,            \* self.error_count
    last_error_timestamp,   \* self.last_error_timestamp: {} (None) or {time}
    exited,                 \* os._exit(1) was called: the process is gone
    errors,                 \* history: the on_error invocations so far
    now,                    \* the clock read by time.time() and utcnow(), in ticks
    stack,                  \* self.stack: recipient id -> messages, flood_left
    sending,                \* self.sending: {} (free) or {the thread holding it}
    saying,                 \* each thread's position in say() and its locals
    isupport,               \* self.isupport: the parameters the server advertised
    hostmask,               \* self.hostmask: {} (None) or {the hostmask}
    said,                   \* history: the say() calls, with the lines each sent
    requesting              \* each thread's position in cap_req() and its locals

lifecycle ==
    <<hasquit, wantsrestart, error_count, last_error_timestamp, exited, errors>>
outbound ==
    <<now, stack, sending, saying, isupport, hostmask, said, requesting>>
vars == <<backend, nick, settings, connection_registered, enabled_capabilities,
          cap_reqs, cap_lists, last_raw_line, batches, effects, received, call,
          raised, lifecycle, outbound>>

EmptyDict == [k \in {} |-> {}]
DictSet(d, k, v) == (k :> v) @@ d     \* d[k] = v

\* one entry of effects: a backend method call or a dispatch, made while
\* on_message was handling line number `at` (0 outside on_message)
Send(at, what) == [kind |-> "send", at |-> at, what |-> what]
\* n is the arrival number of the line whose pretrigger is dispatched
Dispatch(at, n, pretrigger) ==
    [kind |-> "dispatch", at |-> at, n |-> n, what |-> pretrigger]

\* ------------------------------------------------------------ inbound lines
R1 == <<"1">>
R2 == <<"2">>
Line(event, args, tags) == [event |-> event, args |-> args, tags |-> tags]
Marker(sigil, reference, batchtype, tags) ==
    Line("BATCH", <<<<"*">>, <<sigil>> \o reference, batchtype>>, tags)
InBatch(reference) == {<<"batch", reference>>}

Lines ==
    { Line("PRIVMSG", <<<<"#">>, <<"h", "i">>>>, {}),
      Line("PRIVMSG", <<<<"#">>, <<"h", "i">>>>, InBatch(R1)),
      Line("PING", <<<<"i", "d">>, <<"s", "r", "v">>>>, {}),
      Line("PING", <<<<"i", "d">>, <<"s", "r", "v">>>>, InBatch(R1)),
      Line("ERROR", <<<<"b", "y", "e">>>>, {}),
      Marker("+", R1, chathistory, {}),
      Marker("+", R1, chathistory, InBatch(R1)),
      Marker("+", R2, netjoin, InBatch(R1)),
      Marker("+", R2, <<"x">>, {}),
      Marker("-", R1, <<>>, {}),
      Marker("?", R1, chathistory, {}) }

\* ------------------------------------------------------------- on_message
Go(b) == [flow |-> "go", exc |-> NoExc, batches |-> b]
Return(b, why) == [flow |-> why, exc |-> NoExc, batches |-> b]
Raise(b, exc) == [flow |-> "raise", exc |-> exc, batches |-> b]

\* lines 321-331: the BATCH marker branch.  b is self.batches.
BatchMarker(pretrigger, b) ==
    IF pretrigger.event # "BATCH" THEN Go(b)
    ELSE IF ~HasItem(pretrigger.args, 1) THEN Raise(b, "IndexError")
    ELSE IF Len(Item(pretrigger.args, 1)) = 0 THEN Raise(b, "IndexError")
    ELSE
      LET action == Char0(Item(pretrigger.args, 1)) IN
      IF action = "+" THEN
        LET parent == {r \in TagGet(pretrigger.tags, "batch") : r \in DOMAIN b}
            newbatch == Batch(pretrigger, parent)
        IN  IF newbatch.exc # NoExc THEN Raise(b, newbatch.exc)
            ELSE Go(DictSet(b, newbatch.reference,
                            [reference |-> newbatch.reference,
                             batchtype |-> newbatch.batchtype,
                             parent |-> newbatch.parent,
                             messages |-> newbatch.messages]))
      ELSE IF action = "-" THEN
        \* self.batches[pretrigger.args[1][0]]: the key is the sigil itself
        IF <<action>> \notin DOMAIN b THEN Raise(b, "KeyError")
        ELSE Go(b)    \* pass  # todo: handle batch
      ELSE Return(b, "malformed")

\* the unknown-batch test written with tags.get("batch"): None is in no dict,
\* so a line without a batch tag is dropped too
BatchTag_GetNone(pretrigger, b) ==
    IF \A r \in TagGet(pretrigger.tags, "batch") : r \notin DOMAIN b
    THEN Return(b, "unknown_batch")
    ELSE Go(b)

\* lines 332-336: the batch tag branch
BatchTag(pretrigger, b) ==
    IF HasTag(pretrigger.tags, "batch")
       /\ \A r \in TagGet(pretrigger.tags, "batch") : r \notin DOMAIN b
    THEN Return(b, "unknown_batch")
    ELSE Go(b)        \* pass  # todo: add message to batch

\* the PONG carries args[0] instead of args[-1]
Keepalive_FirstArg(pretrigger, at) ==
    IF pretrigger.event = "PING"
    THEN <<Send(at, <<"send_pong", Item(pretrigger.args, 0)>>)>>
    ELSE IF pretrigger.event = "ERROR"
    THEN <<Send(at, <<"on_irc_error", pretrigger.event>>)>>
    ELSE <<>>

\* lines 339-343: what on_message calls on the backend for this event
Keepalive(pretrigger, at) ==
    IF pretrigger.event = "PING"
    THEN <<Send(at, <<"send_pong", Last(pretrigger.args)>>)>>
    ELSE IF pretrigger.event = "ERROR"
    THEN <<Send(at, <<"on_irc_error", pretrigger.event>>)>>
    ELSE <<>>

account_tag == <<"a", "c", "c", "o", "u", "n", "t", "-", "t", "a", "g">>
extended_join == <<"e", "x", "t", "e", "n", "d", "e", "d", "-", "j", "o", "i", "n">>

\* the same, the tag removed as soon as one of the two is not enabled
PreTrigger_AnyMissing(message, enabled) ==
    [event |-> message.event,
     args |-> message.args,
     tags |-> IF \E cap \in {account_tag, extended_join} : cap \notin enabled
              THEN TagPop(message.tags, "account")
              ELSE message.tags]

\* lines 308-318: the pretrigger of a raw line, untrusted tags removed
PreTrigger(message, enabled) ==
    [event |-> message.event,
     args |-> message.args,
     tags |-> IF \A cap \in {account_tag, extended_join} : cap \notin enabled
              THEN TagPop(message.tags, "account")
              ELSE message.tags]

\* the same behind the sending lock: nothing is done while a thread holds it
Ingest_UnderLock(pretrigger, b, at) ==
    IF sending # {}
    THEN [batches |-> b, added |-> <<>>, result |-> "blocked", exc |-> NoExc]
    ELSE
      LET marker == BatchMarker(pretrigger, b) IN
      IF marker.flow # "go"
      THEN [batches |-> marker.batches, added |-> <<>>,
            result |-> marker.flow, exc |-> marker.exc]
      ELSE
        LET tagged == BatchTag(pretrigger, marker.batches) IN
        IF tagged.flow # "go"
        THEN [batches |-> tagged.batches, added |-> <<>>,
              result |-> tagged.flow, exc |-> tagged.exc]
        ELSE [batches |-> tagged.batches,
              added |-> Keepalive(pretrigger, at) \o <<Dispatch(at, at, pretrigger)>>,
              result |-> "dispatched", exc |-> NoExc]
\* lines 320-345: from the batch handling to the dispatch
Ingest(pretrigger, b, at) ==
    LET marker == BatchMarker(pretrigger, b) IN
    IF marker.flow # "go"
    THEN [batches |-> marker.batches, added |-> <<>>,
          result |-> marker.flow, exc |-> marker.exc]
    ELSE
      LET tagged == BatchTag(pretrigger, marker.batches) IN
      IF tagged.flow # "go"
      THEN [batches |-> tagged.batches, added |-> <<>>,
            result |-> tagged.flow, exc |-> tagged.exc]
      ELSE [batches |-> tagged.batches,
            added |-> Keepalive(pretrigger, at) \o <<Dispatch(at, at, pretrigger)>>,
            result |-> "dispatched", exc |-> NoExc]

on_message(message) ==
    /\ call' = [op |-> "on_message", input |-> message, mark |-> Len(effects)]
    /\ IF backend = {}
       THEN /\ raised' = "RuntimeError"
            /\ UNCHANGED <<last_raw_line, batches, effects, received>>
       ELSE LET at == Len(received) + 1
                pretrigger == PreTrigger(message, enabled_capabilities)
                done == Ingest(pretrigger, batches, at)
            IN  /\ last_raw_line' = message
                /\ batches' = done.batches
                /\ effects' = effects \o done.added
                /\ raised' = done.exc
                /\ received' = Append(received,
                                      [line |-> message,
                                       open |-> DOMAIN batches,
                                       result |-> done.result])
    /\ UNCHANGED <<lifecycle, outbound>>
    /\ UNCHANGED <<backend, nick, settings, connection_registered,
                   enabled_capabilities, cap_reqs, cap_lists>>

\* ---------------------------------------------------------------- run
\* run(): self.backend = self.get_irc_backend(...)
run ==
    /\ backend = {}
    /\ backend' = {"backend"}
    /\ call' = [op |-> "run", input |-> <<>>, mark |-> Len(effects)]
    /\ raised' = NoExc
    /\ UNCHANGED <<lifecycle, outbound>>
    /\ UNCHANGED <<nick, settings, connection_registered, enabled_capabilities,
                   cap_reqs, cap_lists, last_raw_line, batches, effects, received>>

\* ------------------------------------------------------------------- Init
AuthMethods == {"none", "server", "nickserv"}
Nicks == {<<"b", "o", "t">>, <<"b", "o", "t", "2">>}

\* the threads that call say(); each is idle or inside one call
Threads == {"t1", "t2"}
Idle == [pc |-> "idle", n |-> 0]
\* a thread that is not inside cap_req()
Resting == [pc |-> "rest"]

\* the state __init__ leaves, for one configuration
Constructed(core) ==
    /\ backend = {}
    /\ nick = <<"b", "o", "t">>
    /\ settings = core
    /\ connection_registered = FALSE
    /\ enabled_capabilities = {}
    /\ cap_reqs = EmptyDict
    /\ cap_lists = <<>>
    /\ last_raw_line = <<>>
    /\ batches = EmptyDict
    /\ effects = <<>>
    /\ received = <<>>
    /\ call = [op |-> "init", input |-> <<>>, mark |-> 0]
    /\ raised = NoExc
    /\ hasquit = FALSE
    /\ wantsrestart = FALSE
    /\ error_count = 0
    /\ last_error_timestamp = {}
    /\ exited = FALSE
    /\ errors = [n |-> 0, storm |-> TRUE]
    /\ now = 0
    /\ stack = EmptyDict
    /\ sending = {}
    /\ saying = [t \in Threads |-> Idle]
    /\ isupport = EmptyDict
    /\ hostmask = {}
    /\ said = <<>>
    /\ requesting = [t \in Threads |-> Resting]

\* The clock counts ticks; durations of the configuration are given in ticks.
Second == 2
\* the flood and loop settings of one configuration, small enough to be
\* reached in a few calls
FloodMaxWait == 2 * Second
FloodBurstLines == 2
FloodRefillRate == 1
FloodEmptyWait == Second
FloodTextLength == 4
FloodPenaltyRatio == [num |-> 1, den |-> 1]
AntiloopThreshold == 2
AntiloopWindow == 3 * Second
AntiloopSilentAfter == 2
\* the text sent in place of a repeated message (core.antiloop_repeat_text)
RepeatText == <<".", ".", ".">>

\* self.settings.core; durations are in ticks
Core(auth_method, server_auth_method) ==
    [auth_method |-> auth_method,
     auth_password |-> "secret",
     server_auth_method |-> server_auth_method,
     server_auth_password |-> "server-secret",
     user |-> <<"s", "o", "p", "e", "l">>,
     name |-> "Sopel",
     bind_host |-> {},
     flood_max_wait |-> FloodMaxWait,
     flood_burst_lines |-> FloodBurstLines,
     flood_refill_rate |-> FloodRefillRate,
     flood_empty_wait |-> FloodEmptyWait,
     flood_text_length |-> FloodTextLength,
     flood_penalty_ratio |-> FloodPenaltyRatio,
     antiloop_threshold |-> AntiloopThreshold,
     antiloop_window |-> AntiloopWindow,
     antiloop_repeat_text |-> RepeatText,
     antiloop_silent_after |-> AntiloopSilentAfter]

Init == Constructed(Core("none", "none"))

\* ---------------------------------------------------- ingestion of lines
NextIngest ==
    \/ run
    \/ \E message \in Lines : Len(received) < MaxLines /\ on_message(message)

SpecIngest == Init /\ [][NextIngest]_vars

\* the same with room for a batch of three events: open, three lines, close
NextBatch ==
    \/ run
    \/ \E message \in Lines :
           Len(received) < MaxBatchLines /\ on_message(message)

SpecBatch == Init /\ [][NextBatch]_vars

\* ------------------------------------------- reading the ingestion history
Calls == 1..Len(received)
Effects == 1..Len(effects)
BatchOf(line) == TagGet(line.tags, "batch")
IsMarker(line, sigil, reference) ==
    /\ line.event = "BATCH"
    /\ HasItem(line.args, 1)
    /\ Item(line.args, 1) = <<sigil>> \o reference
MarkerReferences == {R1, R2}
DispatchesAt(i) ==
    {k \in Effects : effects[k].kind = "dispatch" /\ effects[k].at = i}
DispatchesOf(i) ==
    {k \in Effects : effects[k].kind = "dispatch" /\ effects[k].n = i}
PongsAt(i) ==
    {k \in Effects : /\ effects[k].kind = "send"
                     /\ effects[k].at = i
                     /\ effects[k].what[1] = "send_pong"}
\* the last handler run was on_message and it accepted its line
LineHandled ==
    /\ call.op = "on_message"
    /\ raised # "RuntimeError"
    /\ received # <<>>
LastCall == received[Len(received)]

\* C1: a line that carries the batch tag of a batch open when it arrives is
\* appended to that batch and is not dispatched by the on_message call that
\* receives it.
C1_HeldInBatch ==
    \A i \in Calls :
        \A reference \in BatchOf(received[i].line) :
            reference \in received[i].open =>
                /\ DispatchesAt(i) = {}
                /\ (i = Len(received) /\ reference \in DOMAIN batches) =>
                       \E k \in 1..Len(batches[reference].messages) :
                           batches[reference].messages[k].args = received[i].line.args

\* C2: once a batch is opened and k events are appended, the call that
\* processes its closing marker dispatches exactly those k events, once each,
\* in append order, and none of them is dispatched by any other call.
C2_RoundTrip ==
    \A reference \in MarkerReferences :
        \A o \in Calls : \A c \in Calls :
            ( /\ o < c
              /\ IsMarker(received[o].line, "+", reference)
              /\ received[o].result = "dispatched"
              /\ IsMarker(received[c].line, "-", reference)
              /\ \A j \in (o + 1)..(c - 1) :
                     /\ ~IsMarker(received[j].line, "+", reference)
                     /\ ~IsMarker(received[j].line, "-", reference) )
            =>
            LET members == {j \in (o + 1)..(c - 1) :
                                /\ received[j].line.event # "BATCH"
                                /\ reference \in BatchOf(received[j].line)}
            IN  /\ \A j \in members :
                       /\ Cardinality(DispatchesOf(j)) = 1
                       /\ DispatchesOf(j) \subseteq DispatchesAt(c)
                /\ \A j \in members : \A l \in members :
                       j < l => \A x \in DispatchesOf(j) : \A y \in DispatchesOf(l) : x < y

\* C3: a closing marker removes its batch from the open index; a closing
\* marker for a reference that is not open dispatches nothing, lets no
\* exception escape on_message and leaves the index as it was.
C3_CloseRemoves ==
    LineHandled =>
        \A reference \in MarkerReferences :
            IsMarker(LastCall.line, "-", reference) =>
                /\ raised = NoExc
                /\ reference \notin DOMAIN batches
                /\ reference \notin LastCall.open =>
                       /\ DispatchesAt(Len(received)) = {}
                       /\ DOMAIN batches = LastCall.open

\* C4: a line whose batch tag names a reference that is not open when it
\* arrives is dropped as an unknown-batch error and never dispatched.
C4_UnknownBatchDropped ==
    \A i \in Calls :
        ( /\ BatchOf(received[i].line) # {}
          /\ \A reference \in BatchOf(received[i].line) :
                 reference \notin received[i].open )
        => /\ received[i].result = "unknown_batch"
           /\ DispatchesOf(i) = {}

\* C5: a batch-open marker of an unknown type is dropped without an exception
\* leaving on_message, and no batch is indexed for it.
C5_UnknownTypeDropped ==
    LineHandled =>
        \A reference \in MarkerReferences :
            ( /\ IsMarker(LastCall.line, "+", reference)
              /\ HasItem(LastCall.line.args, 2)
              /\ Item(LastCall.line.args, 2) \notin BatchType )
            => /\ raised = NoExc
               /\ LastCall.result # "dispatched"
               /\ DOMAIN batches = LastCall.open

\* C6: the lines that are no batch marker and carry no batch tag are each
\* dispatched exactly once, by the on_message call that receives them, so in
\* arrival order; the pretrigger dispatched is the one of the line.
Plain(line) == line.event # "BATCH" /\ BatchOf(line) = {}
C6_PlainDispatchedInOrder ==
    /\ \A i \in Calls :
           Plain(received[i].line) =>
               /\ Cardinality(DispatchesOf(i)) = 1
               /\ DispatchesOf(i) \subseteq DispatchesAt(i)
               /\ \A k \in DispatchesOf(i) :
                      /\ effects[k].what.event = received[i].line.event
                      /\ effects[k].what.args = received[i].line.args
    /\ \A i \in Calls : \A j \in Calls :
           (i < j /\ Plain(received[i].line) /\ Plain(received[j].line)) =>
               \A x \in DispatchesOf(i) : \A y \in DispatchesOf(j) : x < y
C6_Witness ==
    \E i \in Calls : \E j \in Calls :
        /\ i < j
        /\ Plain(received[i].line) /\ received[i].line.event = "PRIVMSG"
        /\ Plain(received[j].line) /\ received[j].line.event = "ERROR"
        /\ \E m \in i..j : received[m].result = "unknown_batch"
        /\ DispatchesOf(i) # {} /\ DispatchesOf(j) # {}

\* C7 as stated: every PING line is answered by one PONG that carries its last
\* argument, sent by the call that receives it and before its dispatch, and
\* the PING is dispatched.
Answered(i) ==
    /\ Cardinality(PongsAt(i)) = 1
    /\ \A k \in PongsAt(i) : effects[k].what[2] = Last(received[i].line.args)
    /\ Cardinality(DispatchesOf(i)) = 1
    /\ \A k \in PongsAt(i) : \A d \in DispatchesOf(i) : k < d
    /\ DispatchesOf(i) \subseteq DispatchesAt(i)
C7_EveryPingAnswered ==
    \A i \in Calls : received[i].line.event = "PING" => Answered(i)
\* C7 amended: every PING line that is not dropped as a reference to an
\* unknown batch is answered so.
C7_PingAnswered ==
    \A i \in Calls :
        (received[i].line.event = "PING" /\ received[i].result # "unknown_batch")
            => Answered(i)
C7_Witness ==
    \E i \in Calls : \E j \in Calls :
        /\ received[i].line.event = "PING" /\ BatchOf(received[i].line) = {}
        /\ received[j].line.event = "PING" /\ BatchOf(received[j].line) # {}
        /\ PongsAt(i) # {} /\ PongsAt(j) # {}

\* ------------------------------------------------------------- on_connect
\* the second test written as `if` instead of `elif`
ServerPass_Both(core) ==
    (IF core.auth_method = "server"
     THEN <<Send(0, <<"send_pass", core.auth_password>>)>>
     ELSE <<>>)
    \o (IF core.server_auth_method = "server"
        THEN <<Send(0, <<"send_pass", core.server_auth_password>>)>>
        ELSE <<>>)

\* lines 285-291: the optional server password
ServerPass(core) ==
    IF core.auth_method = "server"
    THEN <<Send(0, <<"send_pass", core.auth_password>>)>>
    ELSE IF core.server_auth_method = "server"
    THEN <<Send(0, <<"send_pass", core.server_auth_password>>)>>
    ELSE <<>>

\* the connection-API calls made so far: each sends one NICK
ConnectionCalls ==
    Cardinality({k \in 1..Len(effects) : /\ effects[k].kind = "send"
                                         /\ effects[k].what[1] = "send_nick"})

on_connect ==
    /\ ConnectionCalls < MaxCalls
    /\ call' = [op |-> "on_connect", input |-> <<>>, mark |-> Len(effects)]
    /\ IF backend = {}
       THEN /\ raised' = "RuntimeError"
            /\ UNCHANGED effects
       ELSE /\ raised' = NoExc
            /\ effects' = effects
                   \o <<Send(0, <<"send_command", "CAP", "LS", "302">>)>>
                   \o ServerPass(settings)
                   \o <<Send(0, <<"send_nick", nick>>)>>
                   \o <<Send(0, <<"send_user", settings.user, "0", "*", settings.name>>)>>
    /\ UNCHANGED <<lifecycle, outbound>>
    /\ UNCHANGED <<backend, nick, settings, connection_registered,
                   enabled_capabilities, cap_reqs, cap_lists, last_raw_line,
                   batches, received>>

change_current_nick(new_nick) ==
    /\ ConnectionCalls < MaxCalls
    /\ call' = [op |-> "change_current_nick", input |-> new_nick,
                mark |-> Len(effects)]
    /\ IF backend = {}
       THEN /\ raised' = "RuntimeError"
            /\ UNCHANGED <<nick, effects>>
       ELSE /\ raised' = NoExc
            /\ nick' = new_nick
            /\ effects' = Append(effects, Send(0, <<"send_nick", new_nick>>))
    /\ UNCHANGED <<lifecycle, outbound>>
    /\ UNCHANGED <<backend, settings, connection_registered,
                   enabled_capabilities, cap_reqs, cap_lists, last_raw_line,
                   batches, received>>

InitConnect ==
    \E auth_method \in AuthMethods : \E server_auth_method \in AuthMethods :
        Constructed(Core(auth_method, server_auth_method))

NextConnect ==
    \/ run
    \/ on_connect
    \/ \E new_nick \in Nicks : change_current_nick(new_nick)

SpecConnect == InitConnect /\ [][NextConnect]_vars

\* what the last handler sent to the backend, in order
SentByCall == [k \in 1..(Len(effects) - call.mark) |-> effects[call.mark + k].what]
Connected == call.op = "on_connect" /\ raised = NoExc
ServerAuth ==
    settings.auth_method = "server" \/ settings.server_auth_method = "server"

\* C8: on_connect sends CAP LS first, then one PASS exactly when server
\* authentication is configured, then one NICK, then one USER, and nothing
\* else.
C8_RegistrationOrder ==
    Connected =>
        LET sent == SentByCall
            n == Len(sent)
            passes == {k \in 1..n : sent[k][1] = "send_pass"}
        IN  /\ n = 3 + Cardinality(passes)
            /\ Cardinality(passes) = IF ServerAuth THEN 1 ELSE 0
            /\ sent[1] = <<"send_command", "CAP", "LS", "302">>
            /\ passes \subseteq {2}
            /\ sent[n - 1] = <<"send_nick", nick>>
            /\ sent[n][1] = "send_user"
C8_Witness ==
    /\ Connected
    /\ settings.auth_method = "server"
    /\ settings.server_auth_method = "server"
    /\ Len(SentByCall) = 4
    /\ call.mark > 0

\* ---------------------------------------------------------------- cap_req
CapReq(prefix, plugin_name, arg) ==
    [prefix |-> prefix, plugin |-> plugin_name, arg |-> arg]

\* line 525: self._cap_reqs.get(cap, []) -- the id of the list object stored
\* under cap, 0 for the new empty list get() returns when there is none
EntryId(reqs, cap) == IF cap \in DOMAIN reqs THEN reqs[cap] ELSE 0
EntryOf(lists, id) == IF id = 0 THEN <<>> ELSE lists[id]
Entries(entry) == {entry[k] : k \in 1..Len(entry)}

\* line 526
ArgConflict(entry, arg) == \E ent \in Entries(entry) : ent.arg # arg
\* only a require request counts as opposing a forbid
ForbidConflict_RequireOnly(entry) == \E ent \in Entries(entry) : ent.prefix = "="
\* line 533
ForbidConflict(entry) == \E ent \in Entries(entry) : ent.prefix # "-"
\* line 548
RequireConflict(entry, prefix) ==
    (\E ent \in Entries(entry) : ent.prefix = "-") /\ prefix = "="

\* line 530: a forbid request would disable an enabled capability
ForbidChanges(registered, cap, enabled) == registered /\ cap \in enabled
\* the test of line 542 with the membership inverted
RequireChanges_Enabled(registered, cap, enabled) == registered /\ cap \in enabled
\* line 542: a require or unprefixed request would enable a capability
RequireChanges(registered, cap, enabled) == registered /\ cap \notin enabled

\* lines 535-537 and 550-552: entry.append(...); self._cap_reqs[key] = entry
Stored(reqs, lists, id, key, req) ==
    IF id = 0
    THEN [reqs |-> DictSet(reqs, key, Len(lists) + 1),
          lists |-> Append(lists, <<req>>),
          exc |-> NoExc]
    ELSE [reqs |-> DictSet(reqs, key, id),
          lists |-> [lists EXCEPT ![id] = Append(@, req)],
          exc |-> NoExc]
Rejected(reqs, lists, message) ==
    [reqs |-> reqs, lists |-> lists, exc |-> message]

Conflict == "Exception: Capability conflict"
NoChange == "Exception: Can not change capabilities after server connection has been completed."

\* lines 521-552
CapReqOutcome(plugin_name, capability, arg, reqs, lists, registered, enabled) ==
    IF Len(capability) = 0 THEN Rejected(reqs, lists, "IndexError")
    ELSE
      LET cap == Slice1(capability)
          prefix == Char0(capability)
          id == EntryId(reqs, cap)
          entry == EntryOf(lists, id)
      IN
      IF ArgConflict(entry, arg) THEN Rejected(reqs, lists, Conflict)
      ELSE IF prefix = "-" THEN
        IF ForbidChanges(registered, cap, enabled)
        THEN Rejected(reqs, lists, NoChange)
        ELSE IF ForbidConflict(entry) THEN Rejected(reqs, lists, Conflict)
        ELSE Stored(reqs, lists, id, cap, CapReq(prefix, plugin_name, arg))
      ELSE
        LET cap2 == IF prefix # "=" THEN capability ELSE cap
            prefix2 == IF prefix # "=" THEN "" ELSE prefix
        IN
        IF RequireChanges(registered, cap2, enabled)
        THEN Rejected(reqs, lists, NoChange)
        ELSE IF RequireConflict(entry, prefix2) THEN Rejected(reqs, lists, Conflict)
        ELSE Stored(reqs, lists, id, cap2, CapReq(prefix2, plugin_name, arg))

\* the requests stored for a capability name
RequestsFor(name) == EntryOf(cap_lists, EntryId(cap_reqs, name))
\* the number of list objects bounds the accepted requests; rejected calls
\* change nothing but `call` and `raised`
AcceptedRequests ==
    Cardinality({<<id, k>> \in (1..Len(cap_lists)) \X (1..MaxCapReqs) :
                     k <= Len(cap_lists[id])})

\* the capability name a request is about: the text after the sigil
SigilOf(capability) ==
    IF Char0(capability) \in {"-", "="} THEN Char0(capability) ELSE ""
NameOf(capability) ==
    IF SigilOf(capability) = "" THEN capability ELSE Slice1(capability)

cap_req(plugin_name, capability, arg) ==
    /\ AcceptedRequests < MaxCapReqs
    /\ LET done == CapReqOutcome(plugin_name, capability, arg, cap_reqs,
                                 cap_lists, connection_registered,
                                 enabled_capabilities)
       IN  /\ cap_reqs' = done.reqs
           /\ cap_lists' = done.lists
           /\ raised' = done.exc
    /\ call' = [op |-> "cap_req",
                input |-> [capability |-> capability, arg |-> arg],
                mark |-> Len(effects),
                existing |-> RequestsFor(NameOf(capability))]
    /\ UNCHANGED <<lifecycle, outbound>>
    /\ UNCHANGED <<backend, nick, settings, connection_registered,
                   enabled_capabilities, last_raw_line, batches, effects,
                   received>>

\* The negotiation that acknowledges capabilities and completes registration
\* is driven from outside AbstractBot; here it is the environment.
cap_ack(cap) ==
    /\ cap \notin enabled_capabilities
    /\ enabled_capabilities' = enabled_capabilities \cup {cap}
    /\ call' = [op |-> "cap_ack", input |-> cap, mark |-> Len(effects)]
    /\ raised' = NoExc
    /\ UNCHANGED <<lifecycle, outbound>>
    /\ UNCHANGED <<backend, nick, settings, connection_registered, cap_reqs,
                   cap_lists, last_raw_line, batches, effects, received>>

registered ==
    /\ ~connection_registered
    /\ connection_registered' = TRUE
    /\ call' = [op |-> "registered", input |-> <<>>, mark |-> Len(effects)]
    /\ raised' = NoExc
    /\ UNCHANGED <<lifecycle, outbound>>
    /\ UNCHANGED <<backend, nick, settings, enabled_capabilities, cap_reqs,
                   cap_lists, last_raw_line, batches, effects, received>>

CapA == <<"a">>
CapXA == <<"x", "a">>
Capabilities ==
    {CapA, <<"=">> \o CapA, <<"-">> \o CapA, CapXA, <<"=">> \o CapXA}
CapArgs == {{}, {"1"}, {"2"}}
Plugins == {"plugin"}

NextCaps ==
    \/ \E plugin_name \in Plugins : \E capability \in Capabilities :
           \E arg \in CapArgs : cap_req(plugin_name, capability, arg)
    \/ \E cap \in {CapA, CapXA} : cap_ack(cap)
    \/ registered

SpecCaps == Init /\ [][NextCaps]_vars

Requested == call.op = "cap_req"
Existing == Entries(call.existing)

\* C9: a forbid request for a name that has a stored request which is not a
\* forbid is rejected, and a require request for a name that has a stored
\* forbid request is rejected; the error is the capability conflict, or, once
\* the connection is registered, possibly the changed-after-registration one.
Opposed ==
    \/ /\ SigilOf(call.input.capability) = "-"
       /\ \E ent \in Existing : ent.prefix # "-"
    \/ /\ SigilOf(call.input.capability) = "="
       /\ \E ent \in Existing : ent.prefix = "-"
C9_IntentConflict ==
    (Requested /\ Opposed) =>
        /\ raised \in {Conflict, NoChange}
        /\ ~connection_registered => raised = Conflict
        /\ RequestsFor(NameOf(call.input.capability)) = call.existing
C9_Witness ==
    /\ Requested
    /\ ~connection_registered
    /\ raised = Conflict
    /\ SigilOf(call.input.capability) = "="
    /\ \A ent \in Existing : ent.prefix = "-" /\ ent.arg = call.input.arg
    /\ Existing # {}

\* C10: a request for a name that has a stored request with a different arg
\* is rejected, whatever the sigils.
C10_ArgConflict ==
    (Requested /\ \E ent \in Existing : ent.arg # call.input.arg)
        => raised # NoExc

\* C11: after an accepted request the list stored for its capability name is
\* the list that was stored before the call with the new request appended:
\* nothing is removed or replaced, whatever the sigil.
C11_Accumulate ==
    (Requested /\ raised = NoExc) =>
        LET stored == RequestsFor(NameOf(call.input.capability))
        IN  /\ Len(stored) = Len(call.existing) + 1
            /\ SubSeq(stored, 1, Len(call.existing)) = call.existing
            /\ Last(stored).prefix = SigilOf(call.input.capability)
            /\ Last(stored).arg = call.input.arg

\* C12: once the connection is registered, a request that would change the
\* status of its capability is rejected and stores nothing; a request
\* consistent with the status is never refused for coming after registration
\* (it is accepted or rejected as a capability conflict), and a prefixed one
\* for a name with no stored request is accepted.
Forbids == SigilOf(call.input.capability) = "-"
ChangesStatus ==
    Forbids <=> NameOf(call.input.capability) \in enabled_capabilities
C12_PostRegistration ==
    (Requested /\ connection_registered) =>
        /\ ChangesStatus =>
              /\ raised \in {NoChange, Conflict}
              /\ RequestsFor(NameOf(call.input.capability)) = call.existing
        /\ ~ChangesStatus => raised \in {NoExc, Conflict}
        /\ (~ChangesStatus /\ Existing = {}
                /\ SigilOf(call.input.capability) # "") => raised = NoExc
C12_Witness ==
    /\ Requested
    /\ connection_registered
    /\ ~ChangesStatus
    /\ SigilOf(call.input.capability) = "="
    /\ raised = NoExc
\* C12 as stated: every request consistent with the status is accepted.
C12_ConsistentAccepted ==
    (Requested /\ connection_registered) =>
        /\ ChangesStatus => raised # NoExc
        /\ ~ChangesStatus => raised = NoExc

\* ======================================================== the outbound API
Min(a, b) == IF a <= b THEN a ELSE b
Max(a, b) == IF a >= b THEN a ELSE b
DictGet(d, k, default) == IF k \in DOMAIN d THEN d[k] ELSE default   \* d.get

\* One element of a text is one code point; "U+E9" stands for a code point
\* outside ASCII, which UTF-8 encodes in two bytes.
Utf8Width(c) == IF c = "U+E9" THEN 2 ELSE 1
RECURSIVE Utf8Len(_)
\* len(s.encode('utf-8'))
Utf8Len(s) == IF s = <<>> THEN 0 ELSE Utf8Width(Head(s)) + Utf8Len(Tail(s))

\* utils.safe: the text without its line breaks
safe(text) == SelectSeq(text, LAMBDA c : c \notin {"\n", "\r"})

\* ------------------------------------------------------- safe_text_length
\* line 191
max_line_length == DictGet(isupport, "LINELEN", 512)
\* the estimate of lines 197-205 with the user name counted in full
hostmask_length_FullUser ==
    IF hostmask # {}
    THEN Len(CHOOSE h \in hostmask : TRUE)
    ELSE Len(nick) + 1 + 1 + Len(settings.user) + 1 + 63
\* lines 193-205
hostmask_length ==
    IF hostmask # {}
    THEN Len(CHOOSE h \in hostmask : TRUE)
    ELSE Len(nick) + 1 + 1
             + Min(Len(settings.user), DictGet(isupport, "USERLEN", 9))
             + 1 + 63
\* lines 207-218
safe_text_length(recipient) ==
    max_line_length - 1 - hostmask_length - 1 - 7 - 1 - Utf8Len(recipient)
        - 2 - 2

\* a caller asking for the budget of a recipient
length_query(recipient) ==
    /\ call' = [op |-> "safe_text_length", input |-> recipient,
                mark |-> Len(effects), result |-> safe_text_length(recipient)]
    /\ raised' = NoExc
    /\ UNCHANGED <<lifecycle, outbound>>
    /\ UNCHANGED <<backend, nick, settings, connection_registered,
                   enabled_capabilities, cap_reqs, cap_lists, last_raw_line,
                   batches, effects, received>>

\* The server's RPL_ISUPPORT and the bot's own hostmask are learnt outside
\* AbstractBot; here they are the environment.
advertise(parameter, value) ==
    /\ DictGet(isupport, parameter, 0) # value
    /\ isupport' = DictSet(isupport, parameter, value)
    /\ call' = [op |-> "advertise", input |-> <<parameter, value>>,
                mark |-> Len(effects)]
    /\ raised' = NoExc
    /\ UNCHANGED <<lifecycle, now, stack, sending, saying, hostmask, said,
                   requesting>>
    /\ UNCHANGED <<backend, nick, settings, connection_registered,
                   enabled_capabilities, cap_reqs, cap_lists, last_raw_line,
                   batches, effects, received>>

hostmask_known(mask) ==
    /\ hostmask # {mask}
    /\ hostmask' = {mask}
    /\ call' = [op |-> "hostmask_known", input |-> mask, mark |-> Len(effects)]
    /\ raised' = NoExc
    /\ UNCHANGED <<lifecycle, now, stack, sending, saying, isupport, said,
                   requesting>>
    /\ UNCHANGED <<backend, nick, settings, connection_registered,
                   enabled_capabilities, cap_reqs, cap_lists, last_raw_line,
                   batches, effects, received>>

\* ------------------------------------------------------ the length budget
Chan == <<"#", "c">>
ChanWide == <<"#", "U+E9">>
Recipients == {Chan, ChanWide, <<"n", "i", "c", "k">>}
LineLens == {100, 600}
UserLens == {3, 12}
Hostmasks == {<<"b", "o", "t", "!", "s", "@", "h">>}
Users == {<<"s", "o", "p", "e", "l">>,
          <<"s", "o", "p", "e", "l", "s", "o", "p", "e", "l">>}

InitLength ==
    \E user \in Users :
        Constructed([Core("none", "none") EXCEPT !.user = user])

NextLength ==
    \/ run
    \/ \E new_nick \in Nicks : change_current_nick(new_nick)
    \/ \E value \in LineLens : advertise("LINELEN", value)
    \/ \E value \in UserLens : advertise("USERLEN", value)
    \/ \E mask \in Hostmasks : hostmask_known(mask)
    \/ \E recipient \in Recipients : length_query(recipient)

SpecLength == InitLength /\ [][NextLength]_vars

\* C19: the budget returned for a recipient is L - H - R - 14, with L the
\* advertised LINELEN or 512, R the UTF-8 byte length of the recipient and H
\* the length of the hostmask when known, else the estimate from the current
\* nick, the user name capped at USERLEN (or 9), and 63 for the host.
C19_L == IF "LINELEN" \in DOMAIN isupport THEN isupport["LINELEN"] ELSE 512
C19_UserCap == IF "USERLEN" \in DOMAIN isupport THEN isupport["USERLEN"] ELSE 9
C19_H ==
    IF hostmask = {}
    THEN Len(nick) + 3 + Min(Len(settings.user), C19_UserCap) + 63
    ELSE Len(CHOOSE h \in hostmask : TRUE)
C19_LengthBudget ==
    call.op = "safe_text_length" =>
        call.result = C19_L - C19_H - Utf8Len(call.input) - 14
\* asked after a nick change, with the user name longer than USERLEN and a
\* recipient whose byte length exceeds its character count
C19_Witness ==
    /\ call.op = "safe_text_length"
    /\ hostmask = {}
    /\ nick # <<"b", "o", "t">>
    /\ "LINELEN" \in DOMAIN isupport
    /\ Len(settings.user) > C19_UserCap
    /\ Utf8Len(call.input) > Len(call.input)

\* ------------------------------------------- write, join, kick, notice, part
\* a single-command call that forgets the negotiated capabilities
OneCommandFrame_ResetCaps ==
    /\ enabled_capabilities' = {}
    /\ UNCHANGED <<lifecycle, outbound>>
    /\ UNCHANGED <<backend, nick, settings, connection_registered,
                   cap_reqs, cap_lists, last_raw_line, batches, received>>
\* lines 583-659: write, join, kick, notice and part touch nothing but the
\* backend
OneCommandFrame ==
    /\ UNCHANGED <<lifecycle, outbound>>
    /\ UNCHANGED <<backend, nick, settings, connection_registered,
                   enabled_capabilities, cap_reqs, cap_lists, last_raw_line,
                   batches, received>>

\* lines 583-587
write(args, text) ==
    /\ call' = [op |-> "write", input |-> <<args, text>>, mark |-> Len(effects)]
    /\ IF backend = {}
       THEN raised' = "RuntimeError" /\ UNCHANGED effects
       ELSE /\ raised' = NoExc
            /\ effects' = Append(effects,
                   Send(0, <<"send_command",
                             [k \in 1..Len(args) |-> safe(args[k])], text>>))
    /\ OneCommandFrame

\* lines 613-616
join(channel, password) ==
    /\ call' = [op |-> "join", input |-> <<channel, password>>,
                mark |-> Len(effects)]
    /\ IF backend = {}
       THEN raised' = "RuntimeError" /\ UNCHANGED effects
       ELSE /\ raised' = NoExc
            /\ effects' = Append(effects, Send(0, <<"send_join", channel, password>>))
    /\ OneCommandFrame

\* lines 634-637
kick(nickname, channel, text) ==
    /\ call' = [op |-> "kick", input |-> <<nickname, channel, text>>,
                mark |-> Len(effects)]
    /\ IF backend = {}
       THEN raised' = "RuntimeError" /\ UNCHANGED effects
       ELSE /\ raised' = NoExc
            /\ effects' = Append(effects,
                                 Send(0, <<"send_kick", channel, nickname, text>>))
    /\ OneCommandFrame

\* lines 645-648
notice(text, dest) ==
    /\ call' = [op |-> "notice", input |-> <<text, dest>>, mark |-> Len(effects)]
    /\ IF backend = {}
       THEN raised' = "RuntimeError" /\ UNCHANGED effects
       ELSE /\ raised' = NoExc
            /\ effects' = Append(effects, Send(0, <<"send_notice", dest, text>>))
    /\ OneCommandFrame

\* lines 656-659
part(channel, msg) ==
    /\ call' = [op |-> "part", input |-> <<channel, msg>>, mark |-> Len(effects)]
    /\ IF backend = {}
       THEN raised' = "RuntimeError" /\ UNCHANGED effects
       ELSE /\ raised' = NoExc
            /\ effects' = Append(effects, Send(0, <<"send_part", channel, msg>>))
    /\ OneCommandFrame

\* ------------------------------------------------------------ quit, restart
\* what quit sends
QuitSends_Twice(message) ==
    <<Send(0, <<"send_quit", message>>), Send(0, <<"send_quit", message>>)>>
\* line 669
QuitSends(message) == <<Send(0, <<"send_quit", message>>)>>

\* lines 666-670, the body of quit
Quit(message) ==
    /\ IF backend = {}
       THEN raised' = "RuntimeError" /\ UNCHANGED <<effects, hasquit>>
       ELSE /\ raised' = NoExc
            /\ effects' = effects \o QuitSends(message)
            /\ hasquit' = TRUE
    /\ UNCHANGED <<error_count, last_error_timestamp, exited, errors, outbound>>
    /\ UNCHANGED <<backend, nick, settings, connection_registered,
                   enabled_capabilities, cap_reqs, cap_lists, last_raw_line,
                   batches, received>>

quit(message) ==
    /\ call' = [op |-> "quit", input |-> message, mark |-> Len(effects)]
    /\ Quit(message)
    /\ UNCHANGED wantsrestart

\* lines 684-685
restart(message) ==
    /\ call' = [op |-> "restart", input |-> message, mark |-> Len(effects)]
    /\ wantsrestart' = TRUE
    /\ Quit(message)

\* ---------------------------------------------------------------------- say
RECURSIVE LStrip(_)
LStrip(s) == IF s # <<>> /\ Head(s) = " " THEN LStrip(Tail(s)) ELSE s
\* the 0-based index of the last space among the first `limit` characters,
\* or -1
RFind(text, limit) ==
    LET hits == {j \in 1..Min(limit, Len(text)) : text[j] = " "}
    IN  IF hits = {} THEN -1
        ELSE (CHOOSE j \in hits : \A k \in hits : k <= j) - 1
RECURSIVE Sendable(_, _, _, _)
Sendable(text, excess, unicode_max_length, max_length) ==
    IF Utf8Len(text) <= max_length
    THEN [text |-> text, excess |-> LStrip(excess)]
    ELSE LET last_space == RFind(text, unicode_max_length)
             cut == IF last_space = -1
                    THEN Max(0, Min(unicode_max_length, Len(text)))
                    ELSE last_space
         IN  Sendable(SubSeq(text, 1, cut),
                      SubSeq(text, cut + 1, Len(text)) \o excess,
                      IF last_space = -1 THEN unicode_max_length - 1
                                         ELSE unicode_max_length,
                      max_length)
\* tools.get_sendable_message: the longest prefix within the budget that ends
\* at a space, or a hard cut at the budget when there is no space, and the
\* remainder
get_sendable_message(text, max_length) ==
    Sendable(text, <<>>, max_length, max_length)

\* the text cut at the budget whatever the parameters
Prepared_AlwaysSplit(text, recipient, max_messages, truncation, trailing) ==
    LET first == get_sendable_message(text, safe_text_length(recipient))
    IN  [text |-> first.text \o trailing, excess |-> first.excess]
\* lines 788-809: the text and the excess of one part
Prepared(text, recipient, max_messages, truncation, trailing) ==
    LET safe_length == safe_text_length(recipient)
        splitting == max_messages > 1 \/ truncation # <<>> \/ trailing # <<>>
        length1 == IF splitting /\ max_messages = 1 /\ trailing # <<>>
                   THEN safe_length - Utf8Len(trailing)
                   ELSE safe_length
        first == IF splitting THEN get_sendable_message(text, length1)
                 ELSE [text |-> text, excess |-> <<>>]
        cutting == max_messages = 1 /\ first.excess # <<>> /\ truncation # <<>>
        second == IF cutting
                  THEN get_sendable_message(first.text,
                                            length1 - Utf8Len(truncation))
                  ELSE first
    IN  [text |-> IF max_messages = 1
                  THEN (IF cutting THEN second.text \o truncation
                                   ELSE first.text) \o trailing
                  ELSE first.text,
         excess |-> second.excess]

\* the locals of a thread that is inside say(), before it takes the lock
Frame(n, text, recipient, max_messages, truncation, trailing) ==
    LET piece == Prepared(text, recipient, max_messages, truncation, trailing)
    IN  [pc |-> "lock", n |-> n, text |-> piece.text, excess |-> piece.excess,
         recipient |-> recipient, max_messages |-> max_messages,
         truncation |-> truncation, trailing |-> trailing]

\* identifiers.rfc1459_lower on the characters the recipients use
rfc1459_lower(c) == IF c = "C" THEN "c" ELSE c
\* lines 148-162
make_identifier(name) == [k \in 1..Len(name) |-> rfc1459_lower(name[k])]

\* lines 785-822: the call, up to the lock
say(t, text, recipient, max_messages, truncation, trailing) ==
    /\ saying[t].pc = "idle"
    /\ call' = [op |-> "say",
                input |-> [thread |-> t, text |-> text, recipient |-> recipient,
                           max_messages |-> max_messages,
                           truncation |-> truncation, trailing |-> trailing],
                mark |-> Len(effects)]
    /\ IF backend = {}
       THEN /\ raised' = "RuntimeError"
            /\ UNCHANGED <<saying, said>>
       ELSE /\ raised' = NoExc
            /\ saying' = [saying EXCEPT ![t] =
                   Frame(Len(said) + 1, text, recipient, max_messages,
                         truncation, trailing)]
            /\ said' = Append(said,
                   [thread |-> t, text |-> text, recipient |-> recipient,
                    max_messages |-> max_messages, truncation |-> truncation,
                    trailing |-> trailing,
                    budget |-> safe_text_length(recipient),
                    lines |-> <<>>, waits |-> <<>>, entered |-> <<>>,
                    sent |-> <<>>, state |-> "running"])
    /\ UNCHANGED <<lifecycle, now, stack, sending, isupport, hostmask,
                   requesting>>
    /\ UNCHANGED <<backend, nick, settings, connection_registered,
                   enabled_capabilities, cap_reqs, cap_lists, last_raw_line,
                   batches, effects, received>>

\* lines 826-829: self.stack.setdefault(recipient_id, {...})
Setdefault(recipient_id) ==
    IF recipient_id \in DOMAIN stack THEN stack[recipient_id]
    ELSE [messages |-> <<>>, flood_left |-> settings.flood_burst_lines]
\* lines 831-836, in ticks
Elapsed(recipient_stack) ==
    IF recipient_stack.messages # <<>>
    THEN now - Last(recipient_stack.messages)[1]
    ELSE 300 * Second
Refilled_Always(recipient_stack, elapsed) ==
    Min(settings.flood_burst_lines,
        recipient_stack.flood_left
            + (elapsed \div Second) * settings.flood_refill_rate)
\* lines 840-843
Refilled(recipient_stack, elapsed) ==
    IF recipient_stack.flood_left = 0
    THEN Min(settings.flood_burst_lines,
             (elapsed \div Second) * settings.flood_refill_rate)
    ELSE recipient_stack.flood_left
Penalty_None(text) ==
    0
\* lines 847-853, in ticks
Penalty(text) ==
    IF settings.flood_penalty_ratio.num > 0
    THEN (Max(0, Len(text) - settings.flood_text_length) * Second
              * settings.flood_penalty_ratio.den)
         \div (settings.flood_text_length * settings.flood_penalty_ratio.num)
    ELSE 0
SleepTime_Uncapped(text, flood_left, elapsed) ==
    IF flood_left = 0
    THEN LET wait == settings.flood_empty_wait + Penalty(text)
         IN  IF elapsed < wait THEN wait - elapsed ELSE 0
    ELSE 0
\* lines 846-871: the time to sleep before sending
SleepTime(text, flood_left, elapsed) ==
    IF flood_left = 0
    THEN LET wait == Min(settings.flood_empty_wait + Penalty(text),
                         settings.flood_max_wait)
         IN  IF elapsed < wait THEN wait - elapsed ELSE 0
    ELSE 0

\* a lock per destination: only a say for the same destination is kept out
Acquirable_PerDestination(t) ==
    \A u \in sending :
        u = t \/ make_identifier(saying[u].recipient)
                     # make_identifier(saying[t].recipient)
Acquirable_Always(t) ==
    TRUE
\* line 824: with self.sending, a re-entrant lock: free, or held by t itself
Acquirable(t) ==
    sending \subseteq {t}

\* lines 824-871: take the lock, refill the bucket, start the wait
say_enter(t) ==
    /\ saying[t].pc = "lock"
    /\ Acquirable(t)
    /\ sending' = {t}
    /\ LET frame == saying[t]
           recipient_id == make_identifier(frame.recipient)
           recipient_stack == Setdefault(recipient_id)
           elapsed == Elapsed(recipient_stack)
           flood_left == Refilled(recipient_stack, elapsed)
           sleep_time == SleepTime(frame.text, flood_left, elapsed)
       IN  /\ stack' = DictSet(stack, recipient_id,
                               [recipient_stack EXCEPT !.flood_left = flood_left])
           /\ saying' = [saying EXCEPT ![t] =
                  [pc |-> "locked", n |-> frame.n, text |-> frame.text,
                   excess |-> frame.excess, recipient |-> frame.recipient,
                   max_messages |-> frame.max_messages,
                   truncation |-> frame.truncation,
                   trailing |-> frame.trailing,
                   elapsed |-> elapsed, wake |-> now + sleep_time]]
           /\ said' = [said EXCEPT ![frame.n].waits = Append(@, sleep_time),
                                   ![frame.n].entered = Append(@, now)]
    /\ call' = [op |-> "say_enter",
                input |-> [thread |-> t, n |-> saying[t].n,
                           recipient |-> saying[t].recipient],
                mark |-> Len(effects)]
    /\ raised' = NoExc
    /\ UNCHANGED <<lifecycle, now, isupport, hostmask, requesting>>
    /\ UNCHANGED <<backend, nick, settings, connection_registered,
                   enabled_capabilities, cap_reqs, cap_lists, last_raw_line,
                   batches, effects, received>>

\* messages.count(text)
Count(messages, text) ==
    Cardinality({k \in 1..Len(messages) : messages[k][2] = text})
\* the same without the test of the window
LoopChecked_NoWindow(text, messages, elapsed) ==
    IF /\ Min(10, settings.antiloop_threshold) > 0
       /\ Count(messages, text) >= Min(10, settings.antiloop_threshold)
    THEN IF Count(messages, settings.antiloop_repeat_text)
                >= settings.antiloop_silent_after
         THEN {}
         ELSE {settings.antiloop_repeat_text}
    ELSE {text}
\* lines 874-883: the text to send, or nothing when the message is dropped
LoopChecked(text, messages, elapsed) ==
    IF /\ Min(10, settings.antiloop_threshold) > 0
       /\ elapsed < settings.antiloop_window
       /\ Count(messages, text) >= Min(10, settings.antiloop_threshold)
    THEN IF Count(messages, settings.antiloop_repeat_text)
                >= settings.antiloop_silent_after
         THEN {}
         ELSE {settings.antiloop_repeat_text}
    ELSE {text}
DequeAppend_Unbounded(messages, item) ==
    Append(messages, item)
\* deque(maxlen=10).append
DequeAppend(messages, item) ==
    IF Len(messages) = 10 THEN Append(Tail(messages), item)
    ELSE Append(messages, item)

Recurses_Unbounded(frame) ==
    frame.excess # <<>>
\* line 894: if max_messages > 1 and excess
Recurses(frame) ==
    frame.max_messages > 1 /\ frame.excess # <<>>

\* the lock kept by the thread as long as it has parts to send
Unlocked_AtTheEnd(t, frame) ==
    IF Recurses(frame) THEN {t} ELSE {}
\* line 890, the end of the with block: the lock is free again
Unlocked(t, frame) ==
    {}

\* lines 873-895: after the wait, check for a loop, send, update the
\* destination, release the lock and go on with the excess
say_transmit(t) ==
    /\ saying[t].pc = "locked"
    /\ now >= saying[t].wake
    /\ sending' = Unlocked(t, saying[t])
    /\ LET frame == saying[t]
           recipient_id == make_identifier(frame.recipient)
           recipient_stack == stack[recipient_id]
           checked == LoopChecked(frame.text, recipient_stack.messages,
                                  frame.elapsed)
       IN  IF checked = {}
           THEN /\ saying' = [saying EXCEPT ![t] = Idle]
                /\ said' = [said EXCEPT ![frame.n].state = "dropped"]
                /\ UNCHANGED <<stack, effects>>
           ELSE LET text == CHOOSE x \in checked : TRUE
                IN  /\ effects' = Append(effects,
                           Send(0, <<"send_privmsg", frame.recipient, text>>))
                    /\ stack' = DictSet(stack, recipient_id,
                           [messages |-> DequeAppend(recipient_stack.messages,
                                                     <<now, safe(text)>>),
                            flood_left |-> Max(0, recipient_stack.flood_left - 1)])
                    /\ IF Recurses(frame)
                       THEN /\ saying' = [saying EXCEPT ![t] =
                                   Frame(frame.n, frame.excess, frame.recipient,
                                         frame.max_messages - 1,
                                         frame.truncation, frame.trailing)]
                            /\ said' = [said EXCEPT
                                   ![frame.n].lines = Append(@, text),
                                   ![frame.n].sent = Append(@, now)]
                       ELSE /\ saying' = [saying EXCEPT ![t] = Idle]
                            /\ said' = [said EXCEPT
                                   ![frame.n].lines = Append(@, text),
                                   ![frame.n].sent = Append(@, now),
                                   ![frame.n].state = "done"]
    /\ call' = [op |-> "say_transmit",
                input |-> [thread |-> t, n |-> saying[t].n,
                           recipient |-> saying[t].recipient],
                mark |-> Len(effects)]
    /\ raised' = NoExc
    /\ UNCHANGED <<lifecycle, now, isupport, hostmask, requesting>>
    /\ UNCHANGED <<backend, nick, settings, connection_registered,
                   enabled_capabilities, cap_reqs, cap_lists, last_raw_line,
                   batches, received>>

\* line 871: thread t is in time.sleep and its time is not over
Sleeping(t) ==
    saying[t].pc = "locked" /\ now < saying[t].wake

\* time passes
advance(ticks) ==
    /\ now' = now + ticks
    /\ call' = [op |-> "advance", input |-> ticks, mark |-> Len(effects)]
    /\ raised' = NoExc
    /\ UNCHANGED <<lifecycle, stack, sending, saying, isupport, hostmask,
                   said, requesting>>
    /\ UNCHANGED <<backend, nick, settings, connection_registered,
                   enabled_capabilities, cap_reqs, cap_lists, last_raw_line,
                   batches, effects, received>>

\* ------------------------------------------------------- the API as a whole
Hi == <<"h", "i">>
Who == <<<<"W", "H", "O">>, <<"#", "c", "\n">>>>
NoText == {}
ApiCapabilities == {CapA, <<"-">> \o CapA}
ApiLines == {Line("PRIVMSG", <<<<"#">>, <<"h", "i">>>>, {})}

NextApi ==
    \/ run
    \/ \E cap \in {CapA} : cap_ack(cap)
    \/ \E plugin_name \in Plugins : \E capability \in ApiCapabilities :
           cap_req(plugin_name, capability, {})
    \/ Len(effects) < MaxSent /\ write(Who, NoText)
    \/ Len(effects) < MaxSent /\ join(Chan, NoText)
    \/ Len(effects) < MaxSent /\ kick(Hi, Chan, NoText)
    \/ Len(effects) < MaxSent /\ notice(Hi, Chan)
    \/ Len(effects) < MaxSent /\ part(Chan, NoText)
    \/ Len(effects) < MaxSent /\ quit(NoText)
    \/ Len(effects) < MaxSent /\ restart(NoText)
    \/ Len(effects) < MaxSent /\ on_connect
    \/ \E new_nick \in Nicks \ {nick} :
           Len(effects) < MaxSent /\ change_current_nick(new_nick)
    \/ \E message \in ApiLines :
           Len(effects) < MaxSent /\ on_message(message)
    \/ Len(effects) < MaxSent /\ Len(said) < MaxSent
           /\ say("t1", Hi, Chan, 1, <<>>, <<>>)
    \/ say_enter("t1")
    \/ say_transmit("t1")

SpecApi == Init /\ [][NextApi]_vars

\* C13: no step of cap_req, say, write, join, part, kick, notice, quit or
\* restart changes enabled_capabilities, and no cap_req step, accepted or
\* rejected, sends anything to the backend.
ApplicationCalls ==
    {"cap_req", "say", "say_enter", "say_transmit", "write", "join", "part",
     "kick", "notice", "quit", "restart"}
C13_CapsUntouched ==
    [][ /\ call'.op \in ApplicationCalls =>
               enabled_capabilities' = enabled_capabilities
        /\ call'.op = "cap_req" => effects' = effects ]_vars
\* a capability is enabled, something was sent, and a request was accepted
C13_Witness ==
    /\ Requested
    /\ raised = NoExc
    /\ enabled_capabilities # {}
    /\ \E k \in Effects :
           effects[k].kind = "send" /\ effects[k].what[1] = "send_notice"

\* C18: a call of say, notice, write, join, part, kick, quit, restart,
\* change_current_nick, on_connect or on_message made while there is no
\* backend raises the backend-not-initialized error and leaves nick, hasquit,
\* wantsrestart, stack, batches and last_raw_line as they were.
BackendCalls ==
    {"say", "notice", "write", "join", "part", "kick", "quit", "restart",
     "change_current_nick", "on_connect", "on_message"}
C18_BackendUnavailable ==
    [][ (backend = {} /\ call'.op \in BackendCalls) =>
            /\ raised' = "RuntimeError"
            /\ UNCHANGED <<nick, hasquit, wantsrestart, stack, batches,
                           last_raw_line>> ]_vars

\* --------------------------------------------------------- on_message_sent
Lowercase == <<"a", "b", "c", "d", "e", "f", "g", "h", "i", "j", "k", "l", "m", "n", "o", "p", "q", "r", "s", "t", "u", "v", "w", "x", "y", "z">>
Uppercase == <<"A", "B", "C", "D", "E", "F", "G", "H", "I", "J", "K", "L", "M", "N", "O", "P", "Q", "R", "S", "T", "U", "V", "W", "X", "Y", "Z">>
\* str.upper, one character
UpperChar(c) ==
    IF \E k \in 1..Len(Lowercase) : Lowercase[k] = c
    THEN Uppercase[CHOOSE k \in 1..Len(Lowercase) : Lowercase[k] = c]
    ELSE c
upper(text) == [k \in 1..Len(text) |-> UpperChar(text[k])]
\* str.startswith
startswith(text, prefix) ==
    Len(prefix) <= Len(text) /\ SubSeq(text, 1, Len(prefix)) = prefix

echo_message == <<"e", "c", "h", "o", "-", "m", "e", "s", "s", "a", "g", "e">>
PRIVMSG == <<"P", "R", "I", "V", "M", "S", "G">>
NOTICE == <<"N", "O", "T", "I", "C", "E">>
localhost == <<"l", "o", "c", "a", "l", "h", "o", "s", "t">>

\* the echo is simulated whatever the server echoes
EchoWanted_Always(raw, enabled) ==
    \E cmd \in {PRIVMSG, NOTICE} : startswith(upper(raw), cmd)
\* lines 362-364
EchoWanted(raw, enabled) ==
    /\ echo_message \notin enabled
    /\ \E cmd \in {PRIVMSG, NOTICE} : startswith(upper(raw), cmd)
\* lines 367-374
EchoHost ==
    IF settings.bind_host # {} THEN CHOOSE h \in settings.bind_host : TRUE
    ELSE IF hostmask # {} THEN CHOOSE h \in hostmask : TRUE
    ELSE localhost
\* line 378: ":{0}!{1}@{2} {3}".format(self.nick, self.user, host, raw)
EchoLine(raw) ==
    <<":">> \o nick \o <<"!">> \o settings.user \o <<"@">> \o EchoHost
        \o <<" ">> \o raw

\* lines 359-382
on_message_sent(raw) ==
    /\ call' = [op |-> "on_message_sent", input |-> raw, mark |-> Len(effects)]
    /\ raised' = NoExc
    /\ IF EchoWanted(raw, enabled_capabilities)
       THEN effects' = Append(effects,
                Dispatch(0, 0, [echo |-> nick, line |-> EchoLine(raw)]))
       ELSE UNCHANGED effects
    /\ UNCHANGED <<lifecycle, outbound>>
    /\ UNCHANGED <<backend, nick, settings, connection_registered,
                   enabled_capabilities, cap_reqs, cap_lists, last_raw_line,
                   batches, received>>

\* the lines the backend reports as sent
SentLines ==
    { <<"P", "R", "I", "V", "M", "S", "G", " ", "#", "c", " ", ":", "h", "i">>,
      <<"N", "O", "T", "I", "C", "E", " ", "#", "c", " ", ":", "h", "i">>,
      <<"p", "r", "i", "v", "m", "s", "g", " ", "#", "c", " ", ":", "h", "i">>,
      <<"J", "O", "I", "N", " ", "#", "c">>,
      <<"P", "O", "N", "G", " ", "s", "r", "v">>,
      <<"Q", "U", "I", "T">> }

NextEcho ==
    \/ \E cap \in {echo_message} : cap_ack(cap)
    \/ \E mask \in Hostmasks : hostmask_known(mask)
    \/ \E raw \in SentLines : Len(effects) < MaxSent /\ on_message_sent(raw)

SpecEcho == Init /\ [][NextEcho]_vars

\* the command of an outbound line: its first word, in upper case
RECURSIVE FirstWord(_)
FirstWord(text) ==
    IF text = <<>> \/ Head(text) = " " THEN <<>>
    ELSE <<Head(text)>> \o FirstWord(Tail(text))
EchoedCall ==
    /\ echo_message \notin enabled_capabilities
    /\ upper(FirstWord(call.input)) \in {PRIVMSG, NOTICE}
\* C14: a call of on_message_sent dispatches exactly one event, from the bot's
\* own nick and carrying the line, when echo-message is not enabled and the
\* line is a PRIVMSG or a NOTICE; it dispatches nothing and sends nothing
\* otherwise.
C14_EchoSimulated ==
    call.op = "on_message_sent" =>
        IF EchoedCall
        THEN /\ Len(effects) = call.mark + 1
             /\ Last(effects).kind = "dispatch"
             /\ Last(effects).what.echo = nick
             /\ startswith(Last(effects).what.line, <<":">> \o nick \o <<"!">>)
             /\ SubSeq(Last(effects).what.line,
                       Len(Last(effects).what.line) - Len(call.input) + 1,
                       Len(Last(effects).what.line)) = call.input
        ELSE Len(effects) = call.mark
\* a PRIVMSG was echoed, then echo-message was enabled and a NOTICE was not
C14_Witness ==
    /\ call.op = "on_message_sent"
    /\ echo_message \in enabled_capabilities
    /\ upper(FirstWord(call.input)) = NOTICE
    /\ effects # <<>>
    /\ Len(effects) = call.mark

\* ----------------------------------------------------------------- on_error
\* the counter is tested as if the current error were already counted
TooMany_AtLeast(count) == count >= 10
\* line 397
TooMany(count) == count > 10
\* lines 399-402, in ticks
SinceLastError ==
    IF last_error_timestamp # {}
    THEN now - (CHOOSE at \in last_error_timestamp : TRUE)
    ELSE 0
\* no decay at all
Decayed_Never(count, dt) == count
\* the decay without its lower bound
Decayed_NoFloor(count, dt) == count - dt \div (5 * Second)
\* line 408: int(max(0, self.error_count - dt_seconds // 5))
Decayed(count, dt) == Max(0, count - dt \div (5 * Second))

\* lines 386-411
on_error ==
    /\ ~exited
    /\ call' = [op |-> "on_error",
                input |-> [before |-> error_count, dt |-> SinceLastError],
                mark |-> Len(effects)]
    /\ raised' = NoExc
    /\ errors' = [n |-> errors.n + 1,
                  storm |-> errors.storm /\ SinceLastError < 5 * Second]
    /\ IF TooMany(error_count) /\ SinceLastError < 5 * Second
       THEN /\ exited' = TRUE
            /\ UNCHANGED <<error_count, last_error_timestamp>>
       ELSE /\ last_error_timestamp' = {now}
            /\ error_count' = 1 + (IF TooMany(error_count)
                                   THEN Decayed(error_count, SinceLastError)
                                   ELSE error_count)
            /\ UNCHANGED exited
    /\ UNCHANGED <<hasquit, wantsrestart, outbound>>
    /\ UNCHANGED <<backend, nick, settings, connection_registered,
                   enabled_capabilities, cap_reqs, cap_lists, last_raw_line,
                   batches, effects, received>>

\* the times between two fatal errors: a second, five and a half, a minute
ErrorGaps == {Second, 5 * Second + 1, 60 * Second}

NextError ==
    \/ errors.n < MaxErrors /\ on_error
    \/ \E ticks \in ErrorGaps :
           ~exited /\ now < MaxErrorTime /\ advance(ticks)

SpecError == Init /\ [][NextError]_vars

Failed == call.op = "on_error"
\* C15 as stated: in a storm the eleventh invocation is the one that
\* terminates the process.
C15_EleventhTerminates ==
    (Failed /\ errors.storm) => (exited <=> errors.n = 11)
\* C15: an invocation terminates the process exactly when it finds the
\* counter above 10 less than 5 seconds after the previous error; otherwise it
\* returns with the counter, after any decay, raised by one. In a storm that
\* starts with the counter at zero the first eleven invocations return and
\* the twelfth terminates.
C15_Threshold ==
    Failed =>
        /\ exited <=> (call.input.before > 10 /\ call.input.dt < 5 * Second)
        /\ (~exited /\ call.input.before <= 10) =>
               error_count = call.input.before + 1
        /\ ~exited => error_count >= 1
        /\ errors.storm => (exited <=> errors.n = 12)
        /\ (errors.storm /\ errors.n = 11) => error_count = 11
C15_Witness ==
    /\ Failed
    /\ errors.storm
    /\ errors.n = 12
    /\ exited
    /\ now > 0

\* C16: an invocation that finds the counter above 10 at least 5 seconds
\* after the previous error does not terminate the process; it takes one off
\* the counter per full 5 seconds elapsed, stopping at zero, before it counts
\* the current error.
C16_Intervals == call.input.dt \div (5 * Second)
C16_Decay ==
    (Failed /\ call.input.before > 10 /\ call.input.dt >= 5 * Second) =>
        /\ ~exited
        /\ error_count - 1 =
               (IF C16_Intervals >= call.input.before THEN 0
                ELSE call.input.before - C16_Intervals)
\* after a minute of quiet the whole count is forgotten
C16_Witness ==
    /\ Failed
    /\ call.input.before > 10
    /\ call.input.dt >= 60 * Second
    /\ error_count = 1

\* ------------------------------------------------------- quitting, restarting
Bye == <<"b", "y", "e">>
QuitMessages == {{}, {Bye}}
QuitLines ==
    { Line("PRIVMSG", <<<<"#">>, <<"h", "i">>>>, {}),
      Line("PING", <<<<"i", "d">>, <<"s", "r", "v">>>>, {}),
      Line("ERROR", <<<<"b", "y", "e">>>>, {}) }

NextQuit ==
    \/ run
    \/ \E message \in QuitMessages : Len(effects) < MaxSent /\ quit(message)
    \/ \E message \in QuitMessages : Len(effects) < MaxSent /\ restart(message)
    \/ \E message \in QuitLines : Len(effects) < MaxSent /\ on_message(message)
    \/ Len(said) < MaxSent /\ say("t1", Hi, Chan, 1, <<>>, <<>>)
    \/ say_enter("t1")
    \/ say_transmit("t1")

SpecQuit == Init /\ [][NextQuit]_vars

\* C17: a quit or restart that finds a backend sends one QUIT with its
\* message, sets hasquit (restart also wantsrestart) and leaves the backend in
\* place; with hasquit set, a plain line handed to on_message is still
\* dispatched once by that call (a PING still answered first), and a say that
\* reaches its send still passes its line to the backend.
C17_QuitCooperative ==
    /\ (call.op \in {"quit", "restart"} /\ raised = NoExc) =>
           /\ SentByCall = <<<<"send_quit", call.input>>>>
           /\ hasquit
           /\ call.op = "restart" => wantsrestart
    /\ hasquit => backend # {}
    /\ (hasquit /\ LineHandled /\ Plain(LastCall.line)) =>
           /\ Cardinality(DispatchesOf(Len(received))) = 1
           /\ Last(effects).kind = "dispatch"
           /\ Last(effects).n = Len(received)
           /\ Last(effects).what.event = LastCall.line.event
           /\ LastCall.line.event = "PING" => Answered(Len(received))
    /\ (hasquit /\ call.op = "say_transmit"
            /\ said[call.input.n].state # "dropped") =>
           SentByCall = <<<<"send_privmsg", said[call.input.n].recipient,
                            Last(said[call.input.n].lines)>>>>
\* after a restart a line was dispatched and a say went out
C17_Witness ==
    /\ hasquit
    /\ wantsrestart
    /\ call.op = "say_transmit"
    /\ Len(SentByCall) = 1
    /\ \E q \in Effects : \E d \in Effects :
           /\ q < d
           /\ effects[q].kind = "send" /\ effects[q].what[1] = "send_quit"
           /\ effects[d].kind = "dispatch"

\* ------------------------------------------------ say with its defaults
\* longer than the budget of Chan once LINELEN is advertised as 100
Long == <<"h", "e", "l", "l", "o", " ", "w", "o", "r", "l", "d", "!", "!">>
SayTexts == {Hi, Long}

NextSay ==
    \/ run
    \/ \E value \in LineLens : advertise("LINELEN", value)
    \/ \E text \in SayTexts :
           Len(said) < MaxSays /\ say("t1", text, Chan, 1, <<>>, <<>>)
    \/ say_enter("t1")
    \/ say_transmit("t1")
    \/ now < MaxTime /\ advance(Second)

SpecSay == Init /\ [][NextSay]_vars

Says == 1..Len(said)
\* a call with the default parameters whose text exceeds the budget its
\* recipient had when it was made
DefaultTooLong(n) ==
    /\ said[n].max_messages = 1
    /\ said[n].truncation = <<>>
    /\ said[n].trailing = <<>>
    /\ Utf8Len(said[n].text) > said[n].budget
IsPrefix(short, long) ==
    Len(short) <= Len(long) /\ SubSeq(long, 1, Len(short)) = short
\* C20 as stated: such a call passes one line to the backend, a prefix of the
\* text no longer than the budget.
C20_DefaultTruncates ==
    \A n \in Says :
        (DefaultTooLong(n) /\ said[n].state = "done") =>
            /\ Len(said[n].lines) = 1
            /\ Utf8Len(said[n].lines[1]) <= said[n].budget
            /\ IsPrefix(said[n].lines[1], said[n].text)
\* C20: such a call, unless loop suppression drops it, passes one line to the
\* backend: the whole text, nothing cut at the budget, or the placeholder of
\* loop suppression in its place; the first call with a text passes the text.
C20_DefaultSendsWhole ==
    \A n \in Says :
        DefaultTooLong(n) =>
            /\ said[n].state = "done" =>
                   /\ Len(said[n].lines) = 1
                   /\ said[n].lines[1]
                          \in {said[n].text, settings.antiloop_repeat_text}
                   /\ (\A k \in 1..(n - 1) : said[k].text # said[n].text) =>
                          said[n].lines[1] = said[n].text
            /\ said[n].state = "dropped" => said[n].lines = <<>>
            /\ said[n].state = "running" => said[n].lines = <<>>
C20_Witness ==
    \E n \in Says :
        /\ DefaultTooLong(n)
        /\ said[n].budget > 0
        /\ said[n].state = "done"
        /\ said[n].lines = <<said[n].text>>
        /\ \E k \in Effects :
               /\ effects[k].kind = "send"
               /\ effects[k].what
                      = <<"send_privmsg", said[n].recipient, said[n].text>>

(***************************************************************************)
(* say with max_messages, truncation and trailing: one call at a time on   *)
(* a channel whose budget (LINELEN 100) is 10 bytes.                       *)
(***************************************************************************)
MaxParts == 3
MaxSplitSays == 1

\* "hello world again" splits into hello / world / again
Story == <<"h","e","l","l","o"," ","w","o","r","l","d"," ","a","g","a","i","n">>
Mark == <<"~">>
Sig == <<" ","#">>
SplitTexts == {Hi, Long, Story}

NextSplit ==
    \/ run
    \/ advertise("LINELEN", 100)
    \/ /\ Len(said) < MaxSplitSays
       /\ \E text \in SplitTexts, max_messages \in 1..MaxParts,
             truncation \in {<<>>, Mark}, trailing \in {<<>>, Sig} :
             say("t1", text, Chan, max_messages, truncation, trailing)
    \/ say_enter("t1")
    \/ say_transmit("t1")
    \/ Sleeping("t1") /\ advance(saying["t1"].wake - now)

SpecSplit == Init /\ [][NextSplit]_vars

EndsWith(text, suffix) ==
    /\ Len(text) >= Len(suffix)
    /\ SubSeq(text, Len(text) - Len(suffix) + 1, Len(text)) = suffix

\* C21: every completed say with a non-empty trailing, whatever its
\* max_messages, has transmitted a last line that ends with trailing and that
\* fits the budget of the recipient (the length of trailing was reserved).
C21_TrailingAlways ==
    \A n \in Says :
        (said[n].state = "done" /\ said[n].trailing # <<>>)
            => /\ EndsWith(Last(said[n].lines), said[n].trailing)
               /\ Utf8Len(Last(said[n].lines)) <= said[n].budget

\* the characters of a text that are not spaces, in order
RECURSIVE Squeeze(_)
Squeeze(text) ==
    IF text = <<>> THEN <<>>
    ELSE IF Head(text) = " " THEN Squeeze(Tail(text))
    ELSE <<Head(text)>> \o Squeeze(Tail(text))
\* the lines up to the k-th, one after the other
RECURSIVE Joined(_, _)
Joined(lines, k) ==
    IF k = 0 THEN <<>> ELSE Joined(lines, k - 1) \o lines[k]
Substituted(n) ==
    \E k \in 1..Len(said[n].lines) :
        said[n].lines[k] = settings.antiloop_repeat_text
\* the frame of the part of say number n that is being sent, if any
Frames(n) ==
    {saying[t] : t \in {u \in Threads : saying[u].pc # "idle" /\ saying[u].n = n}}

\* C22: a say with max_messages = n never passes more than n lines to the
\* transport, and while it runs the lines sent plus the parts it may still
\* send never exceed n (each part lowers the count, so the call ends); the
\* lines are successive pieces of the text, and a call that ends before n
\* lines has sent the whole text.
C22_BoundedParts ==
    \A n \in Says :
        LET lines == said[n].lines
        IN  /\ Len(lines) <= said[n].max_messages
            /\ \A frame \in Frames(n) :
                   /\ frame.max_messages >= 1
                   /\ Len(lines) + frame.max_messages = said[n].max_messages
            /\ (said[n].state = "running") = (Frames(n) # {})
            /\ ~Substituted(n) =>
                   /\ \A k \in 1..(Len(lines) - 1) :
                          IsPrefix(Squeeze(Joined(lines, k)), Squeeze(said[n].text))
                   /\ (said[n].state = "done"
                           /\ Len(lines) < said[n].max_messages)
                          => IsPrefix(Squeeze(said[n].text),
                                      Squeeze(Joined(lines, Len(lines))))
                   /\ (said[n].state = "done" /\ said[n].truncation = <<>>
                           /\ said[n].trailing = <<>>)
                          => Squeeze(Joined(lines, Len(lines)))
                                 = Squeeze(said[n].text)

\* a call allowed three parts sent its text in two lines and stopped
C22_Witness ==
    \E n \in Says :
        /\ said[n].state = "done"
        /\ said[n].max_messages = 3
        /\ Len(said[n].lines) = 2
        /\ ~Substituted(n)

(***************************************************************************)
(* The flood bucket of one destination: single-part says by one thread,    *)
(* with the clock moving in steps of half a second.                        *)
(***************************************************************************)
MaxFloodSays == 3
MaxFloodTime == 5

\* 6 and 12 characters: 2 and 8 over flood_text_length
Mid == <<"h","e","l","l","o","!">>
Wide == <<"h","e","l","l","o"," ","w","o","r","l","d","!">>
FloodTexts == {Hi, Mid, Wide}

NextFlood ==
    \/ run
    \/ \E text \in FloodTexts :
           Len(said) < MaxFloodSays /\ say("t1", text, Chan, 1, <<>>, <<>>)
    \/ say_enter("t1")
    \/ say_transmit("t1")
    \/ now < MaxFloodTime /\ advance(1)

SpecFlood == Init /\ [][NextFlood]_vars

\* say number n has taken the lock for its only part
Entered(n) ==
    said[n].entered # <<>>
\* the time between the last send before say number n and the start of n
SinceLastSend(n) ==
    said[n].entered[1] - Last(said[n - 1].sent)
\* the first burst-size says were sent, all at the time the first one started
BurstSpent(n) ==
    /\ n = settings.flood_burst_lines + 1
    /\ \A k \in 1..(n - 1) :
           said[k].state = "done" /\ Last(said[k].sent) = said[1].entered[1]
\* the wait the claim computes, in ticks
ClaimedPenalty(text) ==
    IF settings.flood_penalty_ratio.num > 0
    THEN (Max(0, Len(text) - settings.flood_text_length) * Second
             * settings.flood_penalty_ratio.den)
         \div (settings.flood_text_length * settings.flood_penalty_ratio.num)
    ELSE 0
ClaimedWait(text, e) ==
    Max(0, Min(settings.flood_empty_wait + ClaimedPenalty(text),
               settings.flood_max_wait) - e)
\* the says of a burst started from a full bucket do not wait, and the last
\* of them leaves the bucket at zero
BurstFree ==
    /\ \A n \in Says :
           (/\ n <= settings.flood_burst_lines
            /\ Entered(n)
            /\ \A k \in 1..n : said[k].entered = <<said[1].entered[1]>>)
               => said[n].waits = <<0>>
    /\ \A n \in Says :
           (BurstSpent(n + 1) /\ (n + 1 \in Says => ~Entered(n + 1)))
               => stack[make_identifier(Chan)].flood_left = 0

\* C23 as stated: after such a burst the next say, started e after the last
\* send, sleeps max(0, min(flood_empty_wait + penalty, flood_max_wait) - e).
C23_AlwaysBlocks ==
    /\ BurstFree
    /\ \A n \in Says :
           (BurstSpent(n) /\ Entered(n))
               => said[n].waits[1] = ClaimedWait(said[n].text, SinceLastSend(n))

\* C23: the same, when e is too short for a credit to come back
\* (int(e) * flood_refill_rate = 0); with a credit back the say does not wait.
C23_BlocksWhenEmpty ==
    /\ BurstFree
    /\ \A n \in Says :
           (BurstSpent(n) /\ Entered(n))
               => LET e == SinceLastSend(n)
                  IN  said[n].waits[1] =
                          IF (e \div Second) * settings.flood_refill_rate = 0
                          THEN ClaimedWait(said[n].text, e)
                          ELSE 0

\* a say after the burst waited less than the full wait, with a penalty
C23_Witness ==
    \E n \in Says :
        /\ BurstSpent(n) /\ Entered(n)
        /\ SinceLastSend(n) = 1
        /\ said[n].text = Mid
        /\ said[n].waits = <<2>>
        /\ said[n].state = "done"

\* the destination whose bucket the step to the next state has entered
EnteredStack ==
    stack[make_identifier(call'.input.recipient)]
\* a step in which a say takes the lock for a destination it has sent to
EntersKnown ==
    /\ call'.op = "say_enter"
    /\ make_identifier(call'.input.recipient) \in DOMAIN stack
    /\ EnteredStack.messages # <<>>
\* whole seconds since the last send to that destination
SecondsSince ==
    (now - Last(EnteredStack.messages)[1]) \div Second

\* C24 as stated: a say that starts t seconds after the last send adds
\* refill-rate x t credits to whatever the bucket holds, up to the burst size.
C24_RefillAlways ==
    [][EntersKnown =>
          stack'[make_identifier(call'.input.recipient)].flood_left
              = Min(settings.flood_burst_lines,
                    EnteredStack.flood_left
                        + SecondsSince * settings.flood_refill_rate)]_vars

\* C24: only an empty bucket is refilled, to refill-rate x the whole seconds
\* elapsed, up to the burst size; a bucket that holds credits keeps them as
\* they are.
C24_RefillWhenEmpty ==
    [][EntersKnown =>
          stack'[make_identifier(call'.input.recipient)].flood_left
              = IF EnteredStack.flood_left = 0
                THEN Min(settings.flood_burst_lines,
                         SecondsSince * settings.flood_refill_rate)
                ELSE EnteredStack.flood_left]_vars

\* the third say started two seconds after a burst and found the bucket full
C24_Witness ==
    /\ call.op = "say_enter"
    /\ call.input.n = 3
    /\ BurstSpent(3)
    /\ SinceLastSend(3) = 2 * Second
    /\ stack[make_identifier(Chan)].flood_left = settings.flood_burst_lines

(***************************************************************************)
(* Backpressure: two threads say to one channel.  Threads that can take a  *)
(* step take it and the clock goes on while a thread sleeps; the loop      *)
(* settings are drawn so that a third identical say can be dropped.        *)
(***************************************************************************)
MaxPressureSays == 3

InitPressure ==
    \E threshold \in {1, 2} :
        Constructed([Core("none", "none") EXCEPT
                         !.antiloop_threshold = threshold,
                         !.antiloop_silent_after = 1])

\* the clock goes on under a sleeping thread
Tick ==
    /\ \E t \in Threads : Sleeping(t)
    /\ advance(1)

NextPressure ==
    \/ run
    \/ \E t \in Threads, text \in {Hi, Wide} :
           Len(said) < MaxPressureSays /\ say(t, text, Chan, 1, <<>>, <<>>)
    \/ \E t \in Threads : say_enter(t)
    \/ \E t \in Threads : say_transmit(t)
    \/ Tick

SpecPressure == InitPressure /\ [][NextPressure]_vars

\* the scheduler runs every thread that can run, a finite number of threads
\* compete for the lock, and time passes
SpecPressureFair ==
    /\ SpecPressure
    /\ \A t \in Threads : WF_vars(say_enter(t)) /\ WF_vars(say_transmit(t))
    /\ WF_vars(Tick)

\* the number of send_privmsg calls made so far for text to recipient
Transmitted(recipient, text) ==
    Cardinality({k \in 1..Len(effects) :
        /\ effects[k].kind = "send"
        /\ effects[k].what = <<"send_privmsg", recipient, text>>})
\* the only reason for a drop: the text and the placeholder were sent often
\* enough
Suppressible(n) ==
    /\ Transmitted(said[n].recipient, said[n].text)
           >= Min(10, settings.antiloop_threshold)
    /\ Transmitted(said[n].recipient, settings.antiloop_repeat_text)
           >= settings.antiloop_silent_after

\* C25: every say ends, either by passing its line to the backend or by a
\* loop-suppression drop; no flood wait is longer than flood_max_wait, and a
\* call is dropped only when loop suppression applies to it.
C25_Backpressure ==
    /\ [](\A n \in Says :
             /\ \A k \in 1..Len(said[n].waits) :
                    said[n].waits[k] <= settings.flood_max_wait
             /\ said[n].state = "dropped" => Suppressible(n)
             /\ said[n].state = "done" => Len(said[n].lines) = 1)
    /\ \A n \in 1..MaxPressureSays :
           (Len(said) >= n) ~> (Len(said) >= n /\ said[n].state # "running")

\* a say found the bucket empty, slept the longest wait and was sent
C25_Witness ==
    \E n \in Says :
        /\ said[n].state = "done"
        /\ said[n].waits = <<settings.flood_max_wait>>
        /\ Last(said[n].sent) >= said[n].entered[1] + settings.flood_max_wait

(***************************************************************************)
(* Loop suppression: one thread says two texts to one channel, with the    *)
(* threshold drawn from {1, 2}; the clock moves to the end of a sleep or   *)
(* by a whole antiloop window.                                             *)
(***************************************************************************)
MaxLoopSays == 4
MaxLoopTime == 6

InitLoop ==
    \E threshold \in {1, 2} :
        Constructed([Core("none", "none") EXCEPT
                         !.antiloop_threshold = threshold])

NextLoop ==
    \/ run
    \/ \E text \in {Hi, Mid} :
           Len(said) < MaxLoopSays /\ say("t1", text, Chan, 1, <<>>, <<>>)
    \/ say_enter("t1")
    \/ say_transmit("t1")
    \/ Sleeping("t1") /\ advance(saying["t1"].wake - now)
    \/ now < MaxLoopTime /\ advance(settings.antiloop_window)

SpecLoop == InitLoop /\ [][NextLoop]_vars

\* the lines equal to the text of say number n that earlier says passed to
\* the backend for the same destination less than a window before n started
RecentSends(n) ==
    {mk \in (1..(n - 1)) \X (1..1) :
        /\ Len(said[mk[1]].lines) >= mk[2]
        /\ make_identifier(said[mk[1]].recipient)
               = make_identifier(said[n].recipient)
        /\ said[mk[1]].lines[mk[2]] = said[n].text
        /\ said[n].entered[1] - said[mk[1]].sent[mk[2]]
               < settings.antiloop_window}
\* say number n did not send its own text
Suppressed(n) ==
    \/ said[n].state = "dropped"
    \/ said[n].state = "done" /\ said[n].lines = <<settings.antiloop_repeat_text>>

\* C26: a finished say is suppressed (its text replaced by the placeholder,
\* or nothing sent once the placeholder is silenced) exactly when its text
\* was sent to its destination at least N = min(10, antiloop_threshold)
\* times within the antiloop window before it; older sends do not count.
C26_Substitution ==
    \A n \in Says :
        (said[n].state # "running" /\ Min(10, settings.antiloop_threshold) > 0)
            => (Suppressed(n)
                    <=> Cardinality(RecentSends(n))
                            >= Min(10, settings.antiloop_threshold))

(***************************************************************************)
(* A storm: one thread says one text to one channel again and again, each  *)
(* say right after the one before; the threshold N and the silent-after    *)
(* count M are drawn, and the clock moves to the end of each sleep.        *)
(***************************************************************************)
MaxStormSays == 12

StormThresholds == {1, 9}
StormSilentAfter == {1, 2}

InitStorm ==
    \E threshold \in StormThresholds, silent_after \in StormSilentAfter :
        Constructed([Core("none", "none") EXCEPT
                         !.antiloop_threshold = threshold,
                         !.antiloop_silent_after = silent_after])

NextStorm ==
    \/ run
    \/ Len(said) < MaxStormSays /\ say("t1", Hi, Chan, 1, <<>>, <<>>)
    \/ say_enter("t1")
    \/ say_transmit("t1")
    \/ Sleeping("t1") /\ advance(saying["t1"].wake - now)

SpecStorm == InitStorm /\ [][NextStorm]_vars

\* the says before number n that sent the placeholder
PlaceholdersBefore(n) ==
    {k \in 1..(n - 1) :
        said[k].lines = <<settings.antiloop_repeat_text>>}
\* the says before number n that were sent when n started
SentBefore(n) ==
    {k \in 1..(n - 1) : said[k].sent # <<>>}
\* say number n repeats the text and the destination of all the says before
\* it and started less than a window after the last send
InStorm(n) ==
    /\ \A k \in 1..(n - 1) :
           said[k].text = said[n].text /\ said[k].recipient = said[n].recipient
    /\ Entered(n)
    /\ \A k \in SentBefore(n) :
           (\A j \in SentBefore(n) : j <= k)
               => said[n].entered[1] - Last(said[k].sent)
                      < settings.antiloop_window

\* C27: in a storm, once M = antiloop_silent_after placeholders have been
\* sent, every further say of the text returns without a call to the backend.
C27_Silence ==
    \A n \in Says :
        (/\ said[n].state # "running"
         /\ InStorm(n)
         /\ Cardinality(PlaceholdersBefore(n)) >= settings.antiloop_silent_after)
            => said[n].state = "dropped" /\ said[n].lines = <<>>

\* the threads inside the critical section of lines 824-890
Inside ==
    {t \in Threads : saying[t].pc = "locked"}
\* a step during which thread t stays inside the critical section
StaysInside(t) ==
    saying[t].pc = "locked" /\ saying'[t].pc = "locked"

\* C28: at most one thread is inside the critical section, and it is the one
\* that holds the lock; while a thread is inside, no other step changes a
\* destination's state or passes a line to the backend, and every such change
\* is made by the thread that is leaving the section.
C28_Atomic ==
    /\ [](/\ Cardinality(Inside) <= 1
          /\ \A t \in Threads : t \in Inside <=> sending = {t})
    /\ [][/\ (\E t \in Threads : StaysInside(t))
                 => stack' = stack /\ effects' = effects
          /\ (call'.op = "say_transmit")
                 => /\ sending = {call'.input.thread}
                    /\ sending' = {}
          /\ (stack' # stack)
                 => call'.op \in {"say_enter", "say_transmit"}]_vars

\* one thread is inside with the last credit of the channel in front of it
\* while the other one waits for the lock with a say for the same channel
C28_Witness ==
    \E t \in Threads, u \in Threads :
        /\ saying[t].pc = "locked"
        /\ saying[u].pc = "lock"
        /\ saying[u].recipient = saying[t].recipient
        /\ stack[make_identifier(saying[t].recipient)].flood_left = 1

(***************************************************************************)
(* cap_req called by threads.  The method takes no lock, so another thread *)
(* can run between its checks (lines 521-534 and 538-549) and its append   *)
(* and store (lines 535-537 and 550-552); each call is two steps.          *)
(***************************************************************************)
MaxRaceSays == 1

\* lines 521-534 and 538-549: read the entry and test it
cap_req_check(t, plugin_name, capability, arg) ==
    /\ requesting[t].pc = "rest"
    /\ AcceptedRequests < MaxCapReqs
    /\ LET cap == Slice1(capability)
           prefix == Char0(capability)
           done == CapReqOutcome(plugin_name, capability, arg, cap_reqs,
                                 cap_lists, connection_registered,
                                 enabled_capabilities)
       IN  /\ raised' = done.exc
           /\ IF done.exc # NoExc
              THEN UNCHANGED requesting
              ELSE requesting' = [requesting EXCEPT ![t] =
                       [pc |-> "store",
                        id |-> EntryId(cap_reqs, cap),
                        key |-> IF prefix \in {"-", "="} THEN cap ELSE capability,
                        req |-> CapReq(IF prefix \in {"-", "="} THEN prefix ELSE "",
                                       plugin_name, arg)]]
    /\ call' = [op |-> "cap_req_check",
                input |-> [thread |-> t, capability |-> capability, arg |-> arg],
                mark |-> Len(effects)]
    /\ UNCHANGED <<lifecycle, now, stack, sending, saying, isupport, hostmask,
                   said>>
    /\ UNCHANGED <<backend, nick, settings, connection_registered,
                   enabled_capabilities, cap_reqs, cap_lists, last_raw_line,
                   batches, effects, received>>

\* lines 535-537 and 550-552: entry.append(...); self._cap_reqs[cap] = entry
cap_req_store(t) ==
    /\ requesting[t].pc = "store"
    /\ LET frame == requesting[t]
           done == Stored(cap_reqs, cap_lists, frame.id, frame.key, frame.req)
       IN  /\ cap_reqs' = done.reqs
           /\ cap_lists' = done.lists
    /\ requesting' = [requesting EXCEPT ![t] = Resting]
    /\ call' = [op |-> "cap_req_store",
                input |-> [thread |-> t, key |-> requesting[t].key],
                mark |-> Len(effects)]
    /\ raised' = NoExc
    /\ UNCHANGED <<lifecycle, now, stack, sending, saying, isupport, hostmask,
                   said>>
    /\ UNCHANGED <<backend, nick, settings, connection_registered,
                   enabled_capabilities, last_raw_line, batches, effects,
                   received>>

RaceCapabilities == {CapA, <<"=">> \o CapA, <<"-">> \o CapA}

NextRace ==
    \/ run
    \/ \E t \in Threads, capability \in RaceCapabilities :
           cap_req_check(t, "plugin", capability, {})
    \/ \E t \in Threads : cap_req_store(t)
    \/ \E t \in Threads :
           Len(said) < MaxRaceSays /\ say(t, Hi, Chan, 1, <<>>, <<>>)
    \/ \E t \in Threads : say_enter(t)
    \/ \E t \in Threads : say_transmit(t)

SpecRace == Init /\ [][NextRace]_vars

\* the threads between the checks and the store of cap_req
Storing ==
    {t \in Threads : requesting[t].pc = "store"}

\* C29: a thread that is about to change the capability registry, or that is
\* changing a destination's state, holds the sending lock, so at most one
\* thread at a time is between its read and its write of either.
C29_UnderLock ==
    /\ \A t \in Storing : sending = {t}
    /\ \A t \in Inside : sending = {t}
    /\ Cardinality(Storing) + Cardinality(Inside) <= 1

(***************************************************************************)
(* Inbound lines while a say waits: one thread says to one channel until   *)
(* the bucket is empty and sleeps, and the server sends lines meanwhile.   *)
(***************************************************************************)
MaxWaitSays == 3
MaxWaitLines == 2

WaitLines ==
    { Line("PRIVMSG", <<<<"#">>, <<"h", "i">>>>, {}),
      Line("PING", <<<<"i", "d">>, <<"s", "r", "v">>>>, {}) }

NextWait ==
    \/ run
    \/ Len(said) < MaxWaitSays /\ say("t1", Hi, Chan, 1, <<>>, <<>>)
    \/ say_enter("t1")
    \/ say_transmit("t1")
    \/ Tick
    \/ \E message \in WaitLines :
           Len(received) < MaxWaitLines /\ on_message(message)

SpecWait == Init /\ [][NextWait]_vars

\* some thread is in its flood-control sleep
Waiting ==
    \E t \in Threads : Sleeping(t)

\* C30: a line that arrives while a say sleeps with the lock in its hands is
\* ingested and dispatched in that very call, and the sleeper, the lock and
\* the destination's state are as they were.
C30_IngestDuringWait ==
    [][(call'.op = "on_message" /\ Waiting) =>
          /\ Len(received') = Len(received) + 1
          /\ received'[Len(received')].result = "dispatched"
          /\ \E k \in (Len(effects) + 1)..Len(effects') :
                 /\ effects'[k].kind = "dispatch"
                 /\ effects'[k].n = Len(received')
                 /\ effects'[k].what.event = call'.input.event
          /\ raised' = NoExc
          /\ UNCHANGED <<saying, sending, stack, now>>]_vars

\* a line was dispatched while thread t1 was asleep inside say
C30_Witness ==
    /\ Sleeping("t1")
    /\ sending = {"t1"}
    /\ call.op = "on_message"
    /\ call.input.event = "PRIVMSG"
    /\ DispatchesOf(Len(received)) # {}

(***************************************************************************)
(* reply: the text is prefixed with the nick it answers and handed to      *)
(* notice or to say.  One thread repeats replies to one channel, and the   *)
(* clock moves only to end a sleep, so every reply of a run falls within   *)
(* one antiloop window of the one before.                                  *)
(***************************************************************************)
MaxReplies == 5

\* line 707: '%s: %s' % (reply_to, text)
Prefixed(text, reply_to) ==
    reply_to \o <<":", " ">> \o text

\* lines 687-711; as_notice is the `notice` parameter
reply(t, text, dest, reply_to, as_notice) ==
    IF as_notice
    THEN notice(Prefixed(text, reply_to), dest)
    ELSE say(t, Prefixed(text, reply_to), dest, 1, <<>>, <<>>)

Asker == <<"a", "l">>
\* the send_notice calls made so far for text to dest
Noticed(dest, text) ==
    Cardinality({k \in 1..Len(effects) :
        /\ effects[k].kind = "send"
        /\ effects[k].what = <<"send_notice", dest, text>>})
\* the replies made so far, sent or not
Replies ==
    Len(said) + Cardinality({k \in 1..Len(effects) :
                                 /\ effects[k].kind = "send"
                                 /\ effects[k].what[1] = "send_notice"})

NextReply ==
    \/ run
    \/ \E as_notice \in BOOLEAN :
           Replies < MaxReplies /\ reply("t1", Hi, Chan, Asker, as_notice)
    \/ say_enter("t1")
    \/ say_transmit("t1")
    \/ Tick

SpecReply == Init /\ [][NextReply]_vars

\* C31: of the identical replies made to one destination within the antiloop
\* window, no more than N = min(10, antiloop_threshold) go out with their
\* own text, as a NOTICE just as as a PRIVMSG: the following ones are
\* replaced by the placeholder or not sent.
C31_ReplySuppressed ==
    /\ Transmitted(Chan, Prefixed(Hi, Asker))
           <= Min(10, settings.antiloop_threshold)
    /\ Noticed(Chan, Prefixed(Hi, Asker))
           <= Min(10, settings.antiloop_threshold)

(***************************************************************************)
(* Tagged lines: the server sends lines with an account tag, a time tag,   *)
(* both or none, while capabilities are acknowledged.                      *)
(***************************************************************************)
MaxTagLines == 3

Account == <<"account", <<"b", "o", "b">>>>
Time == <<"time", <<"1", "2">>>>
TagLines ==
    { Line("PRIVMSG", <<<<"#">>, <<"h", "i">>>>, tags) :
          tags \in {{}, {Account}, {Time}, {Account, Time}} }
      \cup {Line("JOIN", <<<<"#">>>>, {Account})}

NextTags ==
    \/ run
    \/ \E cap \in {account_tag, extended_join, CapA} : cap_ack(cap)
    \/ \E message \in TagLines :
           Len(received) < MaxTagLines /\ on_message(message)

SpecTags == Init /\ [][NextTags]_vars

\* the effects the step to the next state appends
Appended ==
    (Len(effects) + 1)..Len(effects')

\* C32: the event a call of on_message dispatches has the tags of its line,
\* with the account tag among them only if account-tag or extended-join is
\* enabled when the line comes in; every other tag is as received.
C32_AccountStripped ==
    [][(call'.op = "on_message" /\ backend # {}) =>
          /\ \E k \in Appended : effects'[k].kind = "dispatch"
          /\ \A k \in Appended :
                 effects'[k].kind = "dispatch" =>
                     effects'[k].what.tags =
                         IF \E cap \in {account_tag, extended_join} :
                                cap \in enabled_capabilities
                         THEN call'.input.tags
                         ELSE {tag \in call'.input.tags : tag[1] # "account"}
      ]_vars

\* with neither capability enabled, a line with both tags was dispatched
\* with its time tag only
C32_Witness ==
    /\ call.op = "on_message"
    /\ call.input.tags = {Account, Time}
    /\ enabled_capabilities = {CapA}
    /\ \E k \in Effects :
           /\ k > call.mark
           /\ effects[k].kind = "dispatch"
           /\ effects[k].what.tags = {Time}

(***************************************************************************)
(* The state kept per destination: one thread says one text to a channel   *)
(* and to a nick, often enough for a history to fill up (the threshold is  *)
(* 9, so that eleven lines go out to one destination).                     *)
(***************************************************************************)
MaxStackSays == 11

InitStack ==
    Constructed([Core("none", "none") EXCEPT !.antiloop_threshold = 9])

NextStack ==
    \/ run
    \/ \E recipient \in {Chan, Asker} :
           Len(said) < MaxStackSays /\ say("t1", Hi, recipient, 1, <<>>, <<>>)
    \/ say_enter("t1")
    \/ say_transmit("t1")
    \/ Sleeping("t1") /\ advance(saying["t1"].wake - now)

SpecStack == InitStack /\ [][NextStack]_vars

\* the destinations some say has taken the lock for
Destinations ==
    {make_identifier(said[n].recipient) : n \in {k \in Says : Entered(k)}}
\* the last (at most ten) items of a sequence
Newest(items) ==
    SubSeq(items, Len(items) - Min(10, Len(items)) + 1, Len(items))

\* C33: every destination's entry holds at most 10 history pairs and between
\* 0 and flood_burst_lines credits; the entries are those of the destinations
\* a say was started for, none is ever removed, and a send leaves the newest
\* ten pairs in the order they were sent.
C33_DestinationState ==
    /\ [](/\ DOMAIN stack = Destinations
          /\ \A id \in DOMAIN stack :
                 /\ Len(stack[id].messages) <= 10
                 /\ stack[id].flood_left \in 0..settings.flood_burst_lines)
    /\ [][/\ DOMAIN stack \subseteq DOMAIN stack'
          /\ \A id \in DOMAIN stack :
                 \/ stack'[id].messages = stack[id].messages
                 \/ /\ call'.op = "say_transmit"
                    /\ id = make_identifier(call'.input.recipient)
                    /\ \E text \in {Hi, settings.antiloop_repeat_text} :
                           stack'[id].messages =
                               Newest(Append(stack[id].messages, <<now, text>>))
         ]_vars

\* the history of the channel is full and has lost its oldest pair
C33_Witness ==
    /\ make_identifier(Chan) \in DOMAIN stack
    /\ Len(stack[make_identifier(Chan)].messages) = 10
    /\ Transmitted(Chan, Hi)
           + Transmitted(Chan, settings.antiloop_repeat_text) = 11

\* C34: as long as the process has not been terminated, error_count is
\* between 0 and 11, and it is at least 1 when on_error has just returned.
C34_CounterBound ==
    ~exited =>
        /\ error_count \in 0..11
        /\ call.op = "on_error" => error_count >= 1

\* on_error found 11 errors more than five seconds after the last one, took
\* one off and counted its own
C34_Witness ==
    /\ ~exited
    /\ call.op = "on_error"
    /\ call.input.before = 11
    /\ call.input.dt = 5 * Second + 1
    /\ error_count = 11

(***************************************************************************)
(* After the silence: one thread repeats one text to one channel until it  *)
(* is dropped (the placeholder is silenced after one use), and the clock   *)
(* moves to the end of a sleep or by a whole antiloop window.              *)
(***************************************************************************)
MaxSilenceSays == 4
MaxSilenceTime == 6

NextSilence ==
    \/ run
    \/ Len(said) < MaxSilenceSays /\ say("t1", Hi, Chan, 1, <<>>, <<>>)
    \/ say_enter("t1")
    \/ say_transmit("t1")
    \/ Sleeping("t1") /\ advance(saying["t1"].wake - now)
    \/ now < MaxSilenceTime /\ advance(settings.antiloop_window)

SpecSilence == InitPressure /\ [][NextSilence]_vars

\* the time of the last line sent before say number n started; every say of
\* this specification is for the same destination
LastSentBefore(n) ==
    Last(said[CHOOSE k \in SentBefore(n) :
                  \A j \in SentBefore(n) : j <= k].sent)
\* say number n started a whole window or more after the last line was sent
WindowElapsed(n) ==
    /\ Entered(n)
    /\ SentBefore(n) # {}
    /\ said[n].entered[1] - LastSentBefore(n) >= settings.antiloop_window

\* C35: a say that is dropped leaves the history and the credits of its
\* destination as they were and sends nothing; and a say that starts a whole
\* antiloop window or more after the last line sent to its destination ends
\* with its own text sent.
C35_SilenceEnds ==
    /\ [][(call'.op = "say_transmit"
              /\ said'[call'.input.n].state = "dropped")
             => stack' = stack /\ effects' = effects]_vars
    /\ [](\A n \in Says :
             (WindowElapsed(n) /\ said[n].state # "running")
                 => said[n].state = "done" /\ said[n].lines = <<said[n].text>>)

\* a say was dropped, and the next one, a window after the last line sent,
\* went out with its text
C35_Witness ==
    \E n \in Says :
        /\ n > 1
        /\ said[n - 1].state = "dropped"
        /\ WindowElapsed(n)
        /\ said[n].state = "done"
        /\ said[n].lines = <<Hi>>

(***************************************************************************)
(* Two destinations: thread t1 says to the channel until its bucket is     *)
(* empty, thread t2 says to a nick whose bucket has credits.               *)
(***************************************************************************)
MaxHoldSays == 4

NextHold ==
    \/ run
    \/ Len(said) < MaxHoldSays /\ say("t1", Hi, Chan, 1, <<>>, <<>>)
    \/ Len(said) < MaxHoldSays /\ say("t2", Hi, Asker, 1, <<>>, <<>>)
    \/ \E t \in Threads : say_enter(t)
    \/ \E t \in Threads : say_transmit(t)
    \/ Tick

SpecHold == Init /\ [][NextHold]_vars

\* the destination of the say that thread t is in has credits
HasCredits(t) ==
    LET id == make_identifier(saying[t].recipient)
    IN  id \in DOMAIN stack => stack[id].flood_left > 0

\* C36: the thread that sleeps for an empty bucket holds the sending lock,
\* and as long as its sleep lasts no other say takes the lock or passes a
\* line to the backend, whatever its destination and its credits.
C36_WaitHoldsLock ==
    /\ [](\A t \in Threads : Sleeping(t) => sending = {t})
    /\ [][Waiting =>
             /\ call'.op \notin {"say_enter", "say_transmit"}
             /\ effects' = effects
             /\ sending' = sending]_vars

\* t1 sleeps for the channel while t2 waits for the lock with a say for the
\* nick, whose bucket has credits
C36_Witness ==
    /\ Sleeping("t1")
    /\ saying["t1"].recipient = Chan
    /\ saying["t2"].pc = "lock"
    /\ saying["t2"].recipient = Asker
    /\ HasCredits("t2")

(***************************************************************************)
(* Parts and other says: thread t1 says a text in two parts to the channel *)
(* (budget 10 with LINELEN 100) while thread t2 says a short text to it.   *)
(***************************************************************************)
MaxPartSays == 2

NextParts ==
    \/ run
    \/ advertise("LINELEN", 100)
    \/ Len(said) < MaxPartSays /\ say("t1", Long, Chan, 2, <<>>, <<>>)
    \/ Len(said) < MaxPartSays /\ say("t2", Hi, Chan, 1, <<>>, <<>>)
    \/ \E t \in Threads : say_enter(t)
    \/ \E t \in Threads : say_transmit(t)
    \/ Tick

SpecParts == Init /\ [][NextParts]_vars

\* the step to the next state has passed a line to the backend
SendsLine ==
    Len(effects') = Len(effects) + 1

\* C37: every part is sent in a critical section of its own: the step that
\* sends a part releases the lock and leaves the rest, if any, in front of
\* the lock again; each part sent takes a credit from the bucket and adds
\* its pair to the history, and each part has taken the lock before it was
\* sent.
C37_AtomicPerPart ==
    /\ [][call'.op = "say_transmit" =>
             LET t == call'.input.thread
                 id == make_identifier(call'.input.recipient)
             IN  /\ sending' = {}
                 /\ saying'[t].pc \in {"lock", "idle"}
                 /\ SendsLine =>
                        /\ stack'[id].flood_left
                               = Max(0, stack[id].flood_left - 1)
                        /\ Len(stack'[id].messages)
                               = Min(10, Len(stack[id].messages) + 1)
                        /\ Last(stack'[id].messages)[1] = now]_vars
    /\ [](\A n \in Says :
             /\ Len(said[n].lines) <= Len(said[n].entered)
             /\ Len(said[n].entered) <= Len(said[n].lines) + 1)

\* the line of t2 went out between the two parts of the say of t1
C37_Witness ==
    \E n \in Says, m \in Says :
        /\ said[n].thread = "t1" /\ said[m].thread = "t2"
        /\ Len(said[n].lines) = 2
        /\ \E i \in Effects, j \in Effects, k \in Effects :
               /\ i < j /\ j < k
               /\ effects[i].what = <<"send_privmsg", Chan, said[n].lines[1]>>
               /\ effects[j].what = <<"send_privmsg", Chan, Hi>>
               /\ effects[k].what = <<"send_privmsg", Chan, said[n].lines[2]>>

\* ------------------------------------------- dropped lines and the index
\* the step to the next state is an on_message that dropped its line
DropsLine ==
    /\ call'.op = "on_message"
    /\ Len(received') = Len(received) + 1
    /\ Last(received').result \in {"malformed", "unknown_batch"}

\* C38: a line that on_message drops as a malformed marker or as a reference
\* to an unknown batch leaves self.batches as it was: no batch is opened and
\* none is removed.
C38_DropKeepsIndex ==
    [][DropsLine => batches' = batches]_vars

====
